---- MODULE Spec2Model ----
(***************************************************************************)
(* Model of the POP label designer (Ginmori/Pop-maker):                    *)
(*   - the label layout engine drawPOPItem and its text fitting helpers,   *)
(*   - the page renderer renderPageCanvas on the preview surface,          *)
(*   - the export driver getPageImages.                                    *)
(* Lengths are integers in units of 1/1000 px, scale factors in units of   *)
(* 1/10000, font sizes of fitTextToLines in units of 1/100000 px.          *)
(***************************************************************************)
EXTENDS Integers, Sequences, FiniteSets, TLC

\* ------------------------------------------------------------------------
\* JavaScript values
\* ------------------------------------------------------------------------
\* an optional numeric field that is absent (undefined)
Undefined == -999
\* Number(undefined)
NaN == -998

\* a ?? b
Coalesce(a, b) == IF a = Undefined THEN b ELSE a

\* a > b on JavaScript numbers: false when either side is undefined or NaN
JsGt(a, b) == a \notin {Undefined, NaN} /\ b \notin {Undefined, NaN} /\ a > b

\* !value for a number: 0, NaN and undefined are falsy
Falsy(v) == v \in {0, Undefined, NaN}

\* Number(x)
ToNumber(v) == IF v = Undefined THEN NaN ELSE v

\* Number.isFinite(x)
IsFinite(v) == v \notin {Undefined, NaN}

Max(a, b) == IF a >= b THEN a ELSE b
Min(a, b) == IF a <= b THEN a ELSE b

\* ------------------------------------------------------------------------
\* formatPrice: Intl.NumberFormat('id-ID'), thousands grouped with '.'
\* ------------------------------------------------------------------------
Pad3(n) == IF n < 10 THEN "00" \o ToString(n)
           ELSE IF n < 100 THEN "0" \o ToString(n) ELSE ToString(n)

RECURSIVE GroupDigits(_)
GroupDigits(n) == IF n < 1000 THEN ToString(n)
                  ELSE GroupDigits(n \div 1000) \o "." \o Pad3(n % 1000)

formatPrice(price) == IF ~IsFinite(price) THEN "NaN" ELSE GroupDigits(price)

\* renderPriceBlock: the part of the formatted price before the last '.'
mainPrice(price) == IF IsFinite(price) /\ price >= 1000
                    THEN GroupDigits(price \div 1000) ELSE formatPrice(price)

\* renderPriceBlock: the digits after the last '.', "" when there is none
tailDigits(price) == IF IsFinite(price) /\ price >= 1000
                     THEN Pad3(price % 1000) ELSE ""

\* formatPercentValue on whole percentages
formatPercentValue(value) == ToString(value)

\* ------------------------------------------------------------------------
\* Text measurement (fabric): mean advance of 0.6 em per character
\* ------------------------------------------------------------------------
TextWidth(text, size) == Len(text) * ((size * 6) \div 10)

\* ------------------------------------------------------------------------
\* Products, settings
\* ------------------------------------------------------------------------
\* description texts whose upper-cased form contains 'GRANIT'
GraniteTexts == {"Granit 60x60", "GRANITE TILE"}

\* `${descSegment} ${description}`.toUpperCase().includes('GRANIT')
isGranite(product) ==
    product.descSegment \in GraniteTexts \/ product.description \in GraniteTexts

\* one price row of customPriceOptions
Row(uom, normalPrice, promoPrice) ==
    [uom |-> uom, normalPrice |-> normalPrice, promoPrice |-> promoPrice]

\* a primitive of the returned group (positions are not modelled)
Prim(kind, role, text, scale) ==
    [kind |-> kind, role |-> role, text |-> text, scale |-> scale, fontSize |-> 0]

\* a text primitive whose fitted font size (1/100000 px) is modelled
PrimSized(kind, role, text, fontSize) ==
    [kind |-> kind, role |-> role, text |-> text, scale |-> 10000, fontSize |-> fontSize]

groupScale(settings) ==
    IF settings.layout = "4" THEN 1155 ELSE IF settings.layout = "2" THEN 1218 ELSE 1281

contentWidth(settings) ==
    IF settings.layout = "4" THEN 440300
    ELSE IF settings.layout = "2" THEN 499800 ELSE 523600

priceSize(settings) ==
    (IF settings.layout = "4" THEN 50 ELSE IF settings.layout = "2" THEN 62 ELSE 78)
        * groupScale(settings)

\* ------------------------------------------------------------------------
\* Price / discount resolution inside drawPOPItem
\* ------------------------------------------------------------------------
baseDiscount(product) == Coalesce(product.discount, 0)
disc2Raw(product) == Coalesce(product.extraDiscount, Coalesce(product.disc2, 0))
disc3Raw(product) == Coalesce(product.disc3, 0)
rawDisc4(product) == Coalesce(product.memberDiscount, 0)
isDisc4MemberValue(product) == rawDisc4(product) = 2 \/ rawDisc4(product) = 3
useDisc4AsMember(product) ==
    IF product.isCustom THEN rawDisc4(product) > 0 ELSE isDisc4MemberValue(product)
memberRaw(product) == IF useDisc4AsMember(product) THEN rawDisc4(product) ELSE 0
disc4AsDiscountRaw(product) == IF useDisc4AsMember(product) THEN 0 ELSE rawDisc4(product)
discountAmount(product) == Coalesce(product.discountAmount, 0)

priceRows(product) ==
    LET rows == IF Len(product.customPriceOptions) > 0
                THEN product.customPriceOptions
                ELSE <<Row(product.uom, product.normalPrice, product.promoPrice)>>
    IN  SelectSeq(rows, LAMBDA row :
            Coalesce(row.normalPrice, 0) > 0 \/ Coalesce(row.promoPrice, 0) > 0)

primaryPrice(product) ==
    IF Len(priceRows(product)) > 0 THEN priceRows(product)[1]
    ELSE Row(product.uom, product.normalPrice, product.promoPrice)

hasAnyDiscount(product) ==
    \/ baseDiscount(product) > 0
    \/ disc2Raw(product) > 0
    \/ disc3Raw(product) > 0
    \/ disc4AsDiscountRaw(product) > 0
    \/ memberRaw(product) > 0
    \/ discountAmount(product) > 0

hasNoPrice(product) == Len(priceRows(product)) = 0
isDiscountOnly(product) == hasAnyDiscount(product) /\ hasNoPrice(product)

hasMeterPrice(product) ==
    IsFinite(ToNumber(product.finalPricePerMeter))
        /\ IsFinite(ToNumber(product.basePricePerMeter))

\* renderStrikePrice without the showStrikePrice test
renderStrikePriceAnySetting(settings, price, uomLabel, scale) ==
    IF Falsy(price) THEN <<>>
    ELSE <<Prim("text", "strike", "Rp " \o formatPrice(price), scale)>>
         \o (IF uomLabel # "" THEN <<Prim("text", "strikeUom", "/" \o uomLabel, scale)>>
             ELSE <<>>)
         \o <<Prim("line", "strikeLine", "", scale)>>

\* ------------------------------------------------------------------------
\* drawPOPItem: strikethrough price, price block, price branches, badge
\* ------------------------------------------------------------------------
\* the objects renderStrikePrice pushes (none when it returns 0 at once)
renderStrikePrice(settings, price, uomLabel, scale) ==
    IF ~settings.showStrikePrice \/ Falsy(price) THEN <<>>
    ELSE <<Prim("text", "strike", "Rp " \o formatPrice(price), scale)>>
         \o (IF uomLabel # "" THEN <<Prim("text", "strikeUom", "/" \o uomLabel, scale)>>
             ELSE <<>>)
         \o <<Prim("line", "strikeLine", "", scale)>>

\* renderPriceBlock.measureWidth
measureWidth(settings, price, uomLabel, sizeScale) ==
    LET localPrice == (priceSize(settings) * sizeScale) \div 10000
        localCurrency == Max(12000, (localPrice * 4) \div 10)
        localUomSize == Max(10000, (localPrice * 22) \div 100)
        gapMain == (6 * groupScale(settings) * sizeScale) \div 10000
        gapTail == IF tailDigits(price) # ""
                   THEN (4 * groupScale(settings) * sizeScale) \div 10000 ELSE 0
        currencyWidth == TextWidth("Rp.", localCurrency)
        promoWidth == TextWidth(mainPrice(price), localPrice)
        tailWidth == IF tailDigits(price) # ""
                     THEN TextWidth("." \o tailDigits(price),
                                    Max(10000, (localPrice * 35) \div 100))
                     ELSE 0
        uomWidth == IF uomLabel # "" THEN TextWidth("/" \o uomLabel, localUomSize) ELSE 0
        rightWidth == Max(tailWidth, uomWidth)
    IN  currencyWidth + gapMain + promoWidth + gapTail + rightWidth

\* renderPriceBlock: the while loop that lowers sizeScale in 0.04 steps
RECURSIVE fitSizeScale(_, _, _, _, _)
fitSizeScale(settings, price, uomLabel, sizeScale, maxWidth) ==
    LET minScale == 6000
    IN  IF sizeScale > minScale /\ measureWidth(settings, price, uomLabel, sizeScale) > maxWidth
        THEN fitSizeScale(settings, price, uomLabel, Max(minScale, sizeScale - 400), maxWidth)
        ELSE sizeScale

\* the objects renderPriceBlock pushes
renderPriceBlock(settings, price, uomLabel, scale, maxWidth) ==
    LET sizeScale == IF maxWidth # 0
                     THEN fitSizeScale(settings, price, uomLabel, scale, maxWidth)
                     ELSE scale
    IN  <<Prim("text", "currency", "Rp.", sizeScale),
          Prim("text", "price", mainPrice(price), sizeScale)>>
        \o (IF tailDigits(price) # ""
            THEN <<Prim("text", "priceTail", "." \o tailDigits(price), sizeScale)>>
            ELSE <<>>)
        \o (IF uomLabel # ""
            THEN <<Prim("text", "priceUom", "/" \o uomLabel, sizeScale)>>
            ELSE <<>>)

\* the granite (two column) branch
graniteBranch(product, settings) ==
    LET graniteBaseScale == IF settings.layout = "4" THEN 10000
                            ELSE IF settings.layout = "2" THEN 10600 ELSE 11200
        graniteScale == IF hasAnyDiscount(product) THEN graniteBaseScale
                        ELSE (graniteBaseScale * 112) \div 100
        columnGap == Max(20 * groupScale(settings), contentWidth(settings) \div 10)
        columnWidth == (contentWidth(settings) - columnGap) \div 2
        strikeScale == (graniteScale * 9) \div 10
        meterBase == ToNumber(product.basePricePerMeter)
        meterFinal == ToNumber(product.finalPricePerMeter)
        primary == primaryPrice(product)
    IN  (IF hasAnyDiscount(product)
         THEN renderStrikePrice(settings, primary.normalPrice, primary.uom, strikeScale)
              \o renderStrikePrice(settings, meterBase, "Mtr", strikeScale)
         ELSE <<>>)
        \o renderPriceBlock(settings, primary.promoPrice, primary.uom, graniteScale, columnWidth)
        \o renderPriceBlock(settings, meterFinal, "Mtr", graniteScale, columnWidth)

\* the forEach body with the strikethrough decided on the row's promoPrice
\* field instead of on the price the block shows
multiRowStrikeOnPromoField(settings, rows, index) ==
    LET row == rows[index]
        rowScale == IF Len(rows) >= 3 THEN 5800 ELSE 7200
        strikeScale == (rowScale * 48) \div 100
        effectivePromo == IF JsGt(row.promoPrice, 0) THEN row.promoPrice ELSE row.normalPrice
        hasStrike == settings.showStrikePrice /\ JsGt(row.normalPrice, 0)
                        /\ JsGt(row.normalPrice, row.promoPrice)
    IN  (IF hasStrike
         THEN renderStrikePrice(settings, row.normalPrice, row.uom, strikeScale)
         ELSE <<>>)
        \o renderPriceBlock(settings, effectivePromo, row.uom, rowScale,
                            (contentWidth(settings) * 9) \div 10)
        \o (IF index < Len(rows) THEN <<Prim("line", "rowSeparator", "", rowScale)>>
            ELSE <<>>)

\* the forEach body with a separator line after every row
multiRowSeparatorAlways(settings, rows, index) ==
    LET row == rows[index]
        rowScale == IF Len(rows) >= 3 THEN 5800 ELSE 7200
        strikeScale == (rowScale * 48) \div 100
        effectivePromo == IF JsGt(row.promoPrice, 0) THEN row.promoPrice ELSE row.normalPrice
        hasStrike == settings.showStrikePrice /\ JsGt(row.normalPrice, 0)
                        /\ JsGt(row.normalPrice, effectivePromo)
    IN  (IF hasStrike
         THEN renderStrikePrice(settings, row.normalPrice, row.uom, strikeScale)
         ELSE <<>>)
        \o renderPriceBlock(settings, effectivePromo, row.uom, rowScale,
                            (contentWidth(settings) * 9) \div 10)
        \o <<Prim("line", "rowSeparator", "", rowScale)>>

\* one row of the multi-row branch (priceRows.forEach body)
multiRow(settings, rows, index) ==
    LET row == rows[index]
        rowScale == IF Len(rows) >= 3 THEN 5800 ELSE 7200
        strikeScale == (rowScale * 48) \div 100
        effectivePromo == IF JsGt(row.promoPrice, 0) THEN row.promoPrice ELSE row.normalPrice
        hasStrike == settings.showStrikePrice /\ JsGt(row.normalPrice, 0)
                        /\ JsGt(row.normalPrice, effectivePromo)
    IN  (IF hasStrike
         THEN renderStrikePrice(settings, row.normalPrice, row.uom, strikeScale)
         ELSE <<>>)
        \o renderPriceBlock(settings, effectivePromo, row.uom, rowScale,
                            (contentWidth(settings) * 9) \div 10)
        \o (IF index < Len(rows) THEN <<Prim("line", "rowSeparator", "", rowScale)>>
            ELSE <<>>)

RECURSIVE multiRowBranch(_, _, _)
multiRowBranch(settings, rows, index) ==
    IF index > Len(rows) THEN <<>>
    ELSE multiRow(settings, rows, index) \o multiRowBranch(settings, rows, index + 1)

\* the single-row branch with the price block pushed before the strikethrough
singleRowBranchPriceFirst(product, settings) ==
    LET primary == primaryPrice(product)
        nonGraniteScale == IF hasAnyDiscount(product) THEN 14500 ELSE 16500
    IN  renderPriceBlock(settings, primary.promoPrice, primary.uom, nonGraniteScale,
                         contentWidth(settings))
        \o (IF hasAnyDiscount(product)
            THEN renderStrikePrice(settings, primary.normalPrice, primary.uom, 10000)
            ELSE <<>>)

\* the single-row branch
singleRowBranch(product, settings) ==
    LET primary == primaryPrice(product)
        nonGraniteScale == IF hasAnyDiscount(product) THEN 14500 ELSE 16500
    IN  (IF hasAnyDiscount(product)
         THEN renderStrikePrice(settings, primary.normalPrice, primary.uom, 10000)
         ELSE <<>>)
        \o renderPriceBlock(settings, primary.promoPrice, primary.uom, nonGraniteScale,
                            contentWidth(settings))

\* priceBranch with the isDiscountOnly test of the granite branch left out
priceBranchGraniteFirst(product) ==
    IF isGranite(product) /\ hasMeterPrice(product) /\ Len(priceRows(product)) <= 1
    THEN "granite"
    ELSE IF ~isDiscountOnly(product)
         THEN (IF Len(priceRows(product)) > 1 THEN "multi" ELSE "single")
         ELSE "none"

\* priceBranch with the row count test of the granite branch left out
priceBranchAnyRows(product) ==
    IF ~isDiscountOnly(product) /\ isGranite(product) /\ hasMeterPrice(product)
    THEN "granite"
    ELSE IF ~isDiscountOnly(product)
         THEN (IF Len(priceRows(product)) > 1 THEN "multi" ELSE "single")
         ELSE "none"

\* which price branch the if / else-if chain of drawPOPItem takes
priceBranch(product) ==
    IF ~isDiscountOnly(product) /\ isGranite(product) /\ hasMeterPrice(product)
           /\ Len(priceRows(product)) <= 1
    THEN "granite"
    ELSE IF ~isDiscountOnly(product)
         THEN (IF Len(priceRows(product)) > 1 THEN "multi" ELSE "single")
         ELSE "none"

priceObjects(product, settings) ==
    LET branch == priceBranch(product)
    IN  CASE branch = "granite" -> graniteBranch(product, settings)
          [] branch = "multi" -> multiRowBranch(settings, priceRows(product), 1)
          [] branch = "single" -> singleRowBranch(product, settings)
          [] OTHER -> <<>>

\* the height renderStrikePrice returns (1/1000 px): 0 when nothing is drawn
strikeHeight(settings, price, scale, gapScale) ==
    IF renderStrikePrice(settings, price, "", scale) = <<>> THEN 0
    ELSE ((IF settings.layout = "4" THEN 18 ELSE IF settings.layout = "2" THEN 20 ELSE 22)
            * groupScale(settings) * scale) \div 10000
         + (10 * groupScale(settings) * gapScale) \div 10000

RECURSIVE multiRowStrikeAdvance(_, _, _)
multiRowStrikeAdvance(settings, rows, index) ==
    IF index > Len(rows) THEN 0
    ELSE LET row == rows[index]
             rowScale == IF Len(rows) >= 3 THEN 5800 ELSE 7200
             effectivePromo == IF JsGt(row.promoPrice, 0) THEN row.promoPrice
                               ELSE row.normalPrice
             hasStrike == settings.showStrikePrice /\ JsGt(row.normalPrice, 0)
                             /\ JsGt(row.normalPrice, effectivePromo)
         IN  (IF hasStrike
              THEN strikeHeight(settings, row.normalPrice, (rowScale * 48) \div 100, 4000)
              ELSE 0)
             + multiRowStrikeAdvance(settings, rows, index + 1)

\* the sum of the `currentY += strikeHeight` steps of the price branch taken
strikeAdvance(product, settings) ==
    LET branch == priceBranch(product)
        primary == primaryPrice(product)
        graniteBaseScale == IF settings.layout = "4" THEN 10000
                            ELSE IF settings.layout = "2" THEN 10600 ELSE 11200
        graniteScale == IF hasAnyDiscount(product) THEN graniteBaseScale
                        ELSE (graniteBaseScale * 112) \div 100
        strikeScale == (graniteScale * 9) \div 10
    IN  CASE branch = "granite" ->
                IF hasAnyDiscount(product)
                THEN Max(strikeHeight(settings, primary.normalPrice, strikeScale, 10000),
                         strikeHeight(settings, ToNumber(product.basePricePerMeter),
                                      strikeScale, 10000))
                ELSE 0
          [] branch = "multi" -> multiRowStrikeAdvance(settings, priceRows(product), 1)
          [] branch = "single" ->
                IF hasAnyDiscount(product)
                THEN strikeHeight(settings, primary.normalPrice, 10000, 10000)
                ELSE 0
          [] OTHER -> 0

\* cutValue with the discountType test left out
cutValueAnyType(product) ==
    IF discountAmount(product) > 0 THEN discountAmount(product)
    ELSE IF baseDiscount(product) > 100 THEN baseDiscount(product) ELSE 0

\* bottom discount badge: the value that selects the flat-cut card
cutValue(product) ==
    IF product.discountType = "cut" THEN discountAmount(product)
    ELSE IF baseDiscount(product) > 100 THEN baseDiscount(product) ELSE 0

\* the flat-cut card
cutBadge(product) ==
    <<Prim("rect", "cutCard", "", 10000),
      Prim("rect", "cutHeader", "", 10000),
      Prim("text", "cardLabel", "POTONGAN HARGA", 10000),
      Prim("text", "cardValue", "Rp " \o formatPrice(cutValue(product)), 10000)>>

\* discountParts.map(formatPercentValue + '%').join(' + ')
RECURSIVE joinParts(_)
joinParts(parts) ==
    IF Len(parts) = 0 THEN ""
    ELSE IF Len(parts) = 1 THEN formatPercentValue(parts[1]) \o "%"
    ELSE formatPercentValue(parts[1]) \o "% + " \o joinParts(Tail(parts))

discountParts(product) ==
    SelectSeq(<<baseDiscount(product), disc2Raw(product), disc3Raw(product),
                disc4AsDiscountRaw(product)>>, LAMBDA value : value > 0)

\* the cards of the percent badge with the member card put first
badgeItemsMemberFirst(product) ==
    (IF memberRaw(product) > 0
     THEN <<[label |-> "MEMBER",
             value |-> formatPercentValue(memberRaw(product)) \o "%"]>>
     ELSE <<>>)
    \o (IF Len(discountParts(product)) > 0
        THEN <<[label |-> IF product.upTo THEN "DISKON UP TO" ELSE "DISKON",
                value |-> joinParts(discountParts(product))]>>
        ELSE <<>>)

\* the cards of the percent badge: discount card first, member card second
badgeItems(product) ==
    (IF Len(discountParts(product)) > 0
     THEN <<[label |-> IF product.upTo THEN "DISKON UP TO" ELSE "DISKON",
             value |-> joinParts(discountParts(product))]>>
     ELSE <<>>)
    \o (IF memberRaw(product) > 0
        THEN <<[label |-> "MEMBER",
                value |-> formatPercentValue(memberRaw(product)) \o "%"]>>
        ELSE <<>>)

\* items.forEach body
badgeCard(items, index) ==
    <<Prim("rect", "cardCell", "", 10000),
      Prim("rect", "cardHeader", "", 10000),
      Prim("text", "cardLabel", items[index].label, 10000),
      Prim("text", "cardValue", items[index].value, 10000)>>
    \o (IF Len(items) > 1 /\ index > 1 THEN <<Prim("line", "cardSeparator", "", 10000)>>
        ELSE <<>>)

RECURSIVE badgeCards(_, _)
badgeCards(items, index) ==
    IF index > Len(items) THEN <<>>
    ELSE badgeCard(items, index) \o badgeCards(items, index + 1)

percentBadge(product) ==
    IF Len(badgeItems(product)) = 0 THEN <<>>
    ELSE <<Prim("rect", "badgeRow", "", 10000)>> \o badgeCards(badgeItems(product), 1)

\* the badge step with the percent tiers tested before the flat cut
badgeObjectsPercentFirst(product) ==
    IF \/ baseDiscount(product) > 0
       \/ disc2Raw(product) > 0
       \/ disc3Raw(product) > 0
       \/ disc4AsDiscountRaw(product) > 0
       \/ memberRaw(product) > 0
    THEN percentBadge(product)
    ELSE IF cutValue(product) > 0 THEN cutBadge(product) ELSE <<>>

\* the bottom discount badge step
badgeObjects(product) ==
    IF cutValue(product) > 0 THEN cutBadge(product)
    ELSE IF \/ baseDiscount(product) > 0
            \/ disc2Raw(product) > 0
            \/ disc3Raw(product) > 0
            \/ disc4AsDiscountRaw(product) > 0
            \/ memberRaw(product) > 0
         THEN percentBadge(product)
         ELSE <<>>

\* ------------------------------------------------------------------------
\* Text fitting helpers of drawPOPItem (font sizes in 1/100000 px)
\* ------------------------------------------------------------------------
FontUnit == 100000

\* Textbox line count: the text wrapped at the box width
measureLines(text, size, boxWidth) ==
    LET advance == (size * 6) \div 10
        perLine == Max(1, boxWidth \div Max(1, advance))
    IN  Max(1, (Len(text) + perLine - 1) \div perLine)

\* the while loop of fitTextToLines; minSize = Math.max(12, baseSize * 0.7)
RECURSIVE shrinkToLines(_, _, _, _, _)
shrinkToLines(text, maxLines, boxWidth, baseSize, size) ==
    IF size > 12 * FontUnit /\ 10 * size > 7 * baseSize
    THEN IF measureLines(text, size - FontUnit, boxWidth) <= maxLines
         THEN size - FontUnit
         ELSE shrinkToLines(text, maxLines, boxWidth, baseSize, size - FontUnit)
    ELSE size

\* the font size fitTextToLines leaves on the text box
fitTextToLines(text, maxLines, boxWidth, baseSize) ==
    IF measureLines(text, baseSize, boxWidth) <= maxLines THEN baseSize
    ELSE shrinkToLines(text, maxLines, boxWidth, baseSize, baseSize)

\* the while loop of fitTextToWidth with the width comparison reversed
RECURSIVE fitTextToWidthReversed(_, _, _, _)
fitTextToWidthReversed(text, maxWidth, size, minSize) ==
    IF size > minSize /\ TextWidth(text, size) < maxWidth
    THEN fitTextToWidthReversed(text, maxWidth, size - FontUnit, minSize)
    ELSE size

\* the while loop of fitTextToWidth
RECURSIVE fitTextToWidthFrom(_, _, _, _)
fitTextToWidthFrom(text, maxWidth, size, minSize) ==
    IF size > minSize /\ TextWidth(text, size) > maxWidth
    THEN fitTextToWidthFrom(text, maxWidth, size - FontUnit, minSize)
    ELSE size

fitTextToWidth(text, maxWidth, baseSize, minSize) ==
    fitTextToWidthFrom(text, maxWidth, baseSize, minSize)

\* nameSize of drawPOPItem
nameSize(settings, anyDiscount) ==
    LET nameBaseSize == (IF settings.layout = "4" THEN 11
                         ELSE IF settings.layout = "2" THEN 15 ELSE 19)
                            * groupScale(settings) * 100
    IN  IF anyDiscount THEN nameBaseSize ELSE (nameBaseSize * 115) \div 100

\* brandSize of drawPOPItem
brandSize(settings) ==
    (IF settings.layout = "4" THEN 36 ELSE IF settings.layout = "2" THEN 39 ELSE 42)
        * groupScale(settings) * 100

\* the objects pushed before the price branch: background, brand, name,
\* description, divider
headObjects(product, settings, hasCustomTemplate) ==
    LET brandLabel == IF product.brandSegment # "" THEN product.brandSegment
                      ELSE product.brand
        descText == IF product.descSegment # "" THEN product.descSegment
                    ELSE product.description
        brandFontSize == fitTextToWidth(brandLabel, contentWidth(settings) * 100,
                            brandSize(settings),
                            Max(14 * FontUnit, (brandSize(settings) * 65) \div 100))
        nameFontSize == fitTextToLines(product.name,
                            IF hasAnyDiscount(product) THEN 1 ELSE 2,
                            contentWidth(settings) * 100,
                            nameSize(settings, hasAnyDiscount(product)))
    IN  (IF ~hasCustomTemplate THEN <<Prim("rect", "background", "", 10000)>> ELSE <<>>)
        \o (IF brandLabel # "" THEN <<PrimSized("text", "brand", brandLabel, brandFontSize)>>
            ELSE <<>>)
        \o <<PrimSized("textbox", "name", product.name, nameFontSize)>>
        \o (IF descText # "" THEN <<Prim("textbox", "description", descText, 10000)>>
            ELSE <<>>)
        \o <<Prim("line", "divider", "", 10000)>>

\* the object list of the group drawPOPItem returns
drawPOPItem(product, settings, hasCustomTemplate) ==
    headObjects(product, settings, hasCustomTemplate)
        \o priceObjects(product, settings)
        \o badgeObjects(product)

\* ------------------------------------------------------------------------
\* Bounds and sample data
\* ------------------------------------------------------------------------
\* longest product list the editor session builds
MaxProducts == 2
\* number of preview render calls of a session
MaxRenders == 2
\* most price rows (customPriceOptions) of a product
MaxRows == 3

\* products[index] of an index outside the list, and no product at all
NoSku == ""

\* a row of the product query (null columns are Undefined)
SourceRow(code, disc1, disc2, disc3, disc4, base_price, final_price) ==
    [code |-> code, disc1 |-> disc1, disc2 |-> disc2, disc3 |-> disc3, disc4 |-> disc4,
     base_price |-> base_price, final_price |-> final_price]

NoRow == SourceRow("", Undefined, Undefined, Undefined, Undefined, Undefined, Undefined)

BaseProduct ==
    [sku |-> NoSku, name |-> "Produk Custom", brand |-> "", brandSegment |-> "",
     description |-> "", descSegment |-> "", discountType |-> "percent",
     discount |-> 0, extraDiscount |-> Undefined, disc2 |-> Undefined,
     disc3 |-> Undefined, memberDiscount |-> Undefined, discountAmount |-> Undefined,
     upTo |-> FALSE, uom |-> "", normalPrice |-> 0, promoPrice |-> 0,
     customPriceOptions |-> <<>>, basePricePerMeter |-> Undefined,
     finalPricePerMeter |-> Undefined, isCustom |-> FALSE]

\* the products a session looks up or enters
Skus == {"SKU001", "SKU002", "CUSTOM-1"}

Catalog ==
    [sku \in Skus |->
        CASE sku = "SKU001" ->
                [BaseProduct EXCEPT !.sku = sku, !.name = "Keramik 60x60",
                                    !.normalPrice = 50000, !.promoPrice = 35000,
                                    !.discount = 30]
          [] sku = "SKU002" ->
                [BaseProduct EXCEPT !.sku = sku, !.name = "Granit Polos",
                                    !.descSegment = "Granit 60x60", !.uom = "Dus",
                                    !.normalPrice = 180000, !.promoPrice = 150000,
                                    !.basePricePerMeter = 125000,
                                    !.finalPricePerMeter = 104000]
          [] OTHER ->
                [BaseProduct EXCEPT !.sku = sku, !.discountType = "cut",
                                    !.normalPrice = 50000, !.promoPrice = 35000,
                                    !.discount = 30, !.discountAmount = 15000,
                                    !.isCustom = TRUE]]

\* popSettings of EditorPage
PopSettings == [showStrikePrice |-> TRUE, layout |-> "1"]

\* the template state EditorPage starts with: custom type, no image
InitialTemplate == [id |-> "", type |-> "custom", imageUrl |-> ""]

\* the uploaded templates the template panel offers
CustomTemplates == {[id |-> "T1", type |-> "custom", imageUrl |-> "/uploads/T1.png"]}

VARIABLES
    products,               \* EditorPage: the product list (sequence of SKUs)
    internalPage,           \* PopPreview: page index of the preview
    selectedTemplateData,   \* EditorPage: the chosen template
    canvasObjects,          \* PageCanvas: objects on the preview surface
    calls,                  \* renderPageCanvas calls on the preview surface, in start order
    exportPc,               \* getPageImages: "idle", "rendering", "done"
    exportIndex,            \* getPageImages: loop index
    exportProducts,         \* getPageImages: the product list its closure holds
    exportTemplate,         \* getPageImages: the template its closure holds
    exportCall,             \* getPageImages: the renderPageCanvas call of the current page
    exportCanvas,           \* getPageImages: objects on the current off-screen surface
    exportSurfaces,         \* getPageImages: page indexes whose surface is alive
    images,                 \* getPageImages: the images captured so far
    exportTransforms,       \* getPageImages: the itemTransforms its closure holds
    itemTransforms,         \* PopPreview: saved transform of each SKU (0: none)
    enteredProduct,         \* SKUForm: the product handleAddCustomProduct passed on last
    toast,                  \* SKUForm: the last toast shown
    clock,                  \* Date.now()
    isSubmitting,           \* SKUForm: the lookup guard
    lookups,                \* handleSearch calls waiting for fetchProductBySku
    templateMeta,           \* server: the ids in the template metadata file, newest first
    templateSerial,         \* server: how many ids crypto.randomUUID() has handed out
    requests,               \* server: the template requests received, in arrival order
    customTemplates,        \* TemplatePanel: the ids of the uploaded templates it shows
    deleteCall,             \* TemplatePanel: one handleDeleteTemplate call
    layPc, layProduct, laySettings, layCustom, layObjects,   \* one drawPOPItem call
    layStrikeAdvance,       \* what that call added to currentY for strikethroughs
    layRow,                 \* the database row the drawn product was built from
    fitOp, fitText, fitBase, fitMaxLines, fitMaxWidth, fitMin, fitResult  \* one fit call

editorVars == <<products, internalPage, selectedTemplateData>>
previewVars == <<canvasObjects, calls, itemTransforms>>
exportVars == <<exportPc, exportIndex, exportProducts, exportTemplate, exportCall,
                exportCanvas, exportSurfaces, images, exportTransforms>>
layVars == <<layPc, layProduct, laySettings, layCustom, layObjects, layStrikeAdvance,
            layRow>>
fitVars == <<fitOp, fitText, fitBase, fitMaxLines, fitMaxWidth, fitMin, fitResult>>
searchVars == <<isSubmitting, lookups>>
templateVars == <<templateMeta, templateSerial, requests, customTemplates, deleteCall>>
formVars == <<enteredProduct, toast, clock, searchVars, templateVars>>
vars == <<editorVars, previewVars, exportVars, layVars, fitVars, formVars>>

\* no handleDeleteTemplate call in progress
NoDeleteCall == [pc |-> "idle", templateId |-> "", selectedTemplate |-> "",
                 customTemplates |-> <<>>, handed |-> ""]

\* a renderPageCanvas call that has not started
NoCall == [pc |-> "none", product |-> NoSku, template |-> InitialTemplate,
           logged |-> FALSE, overlaps |-> {}, savedTransform |-> 0]

Init ==
    /\ products = <<>>
    /\ internalPage = 0
    /\ selectedTemplateData = InitialTemplate
    /\ canvasObjects = <<>>
    /\ calls = <<>>
    /\ exportPc = "idle"
    /\ exportIndex = 0
    /\ exportProducts = <<>>
    /\ exportTemplate = InitialTemplate
    /\ exportCall = NoCall
    /\ exportCanvas = <<>>
    /\ exportSurfaces = {}
    /\ images = <<>>
    /\ exportTransforms = [sku \in Skus |-> 0]
    /\ itemTransforms = [sku \in Skus |-> 0]
    /\ enteredProduct = BaseProduct
    /\ toast = ""
    /\ clock = 0
    /\ isSubmitting = FALSE
    /\ lookups = <<>>
    /\ templateMeta = <<>>
    /\ templateSerial = 0
    /\ requests = <<>>
    /\ customTemplates = <<>>
    /\ deleteCall = NoDeleteCall
    /\ layPc = "idle"
    /\ layProduct = BaseProduct
    /\ laySettings = PopSettings
    /\ layCustom = FALSE
    /\ layObjects = <<>>
    /\ layStrikeAdvance = 0
    /\ layRow = NoRow
    /\ fitOp = "idle"
    /\ fitText = ""
    /\ fitBase = 0
    /\ fitMaxLines = 0
    /\ fitMaxWidth = 0
    /\ fitMin = 0
    /\ fitResult = 0

\* ------------------------------------------------------------------------
\* PopPreview: pages
\* ------------------------------------------------------------------------
totalPages(list) == Max(Len(list), 1)

\* products[index] (JavaScript index, from 0)
productAt(list, index) == IF index + 1 \in 1..Len(list) THEN list[index + 1] ELSE NoSku

\* setPage with the upper limit only
clampPageUpperOnly(list, nextPage) == Min(totalPages(list) - 1, nextPage)

\* the value setPage stores
clampPage(list, nextPage) == Max(0, Min(totalPages(list) - 1, nextPage))

\* ------------------------------------------------------------------------
\* renderPageCanvas, as steps between its awaits
\* ------------------------------------------------------------------------
AwaitDraw == {"awaitDrawCustom", "awaitDrawDefault"}

\* renderDefaultCanvas up to its await of drawPOPItem
renderDefaultCanvas(product) == IF product = NoSku THEN "done" ELSE "awaitDrawDefault"

\* renderPageCanvas up to its first await; the surface has been cleared.
\* logged: console.error of the catch block has run.
\* overlaps: the calls on the same surface that were still awaiting their
\* image when this call started (kept for the properties only).
\* savedTransform: itemTransforms[product.sku] of the closure (0: none).
renderPageCanvasStart(product, template, inFlight, transforms) ==
    [pc |-> IF template.type = "custom" /\ template.imageUrl # ""
            THEN "awaitImage" ELSE renderDefaultCanvas(product),
     product |-> product, template |-> template, logged |-> FALSE,
     overlaps |-> inFlight,
     savedTransform |-> IF product = NoSku THEN 0 ELSE transforms[product]]

\* the template image put on the surface
ImageObject(id, template) ==
    [kind |-> "image", call |-> id, sku |-> NoSku, hasCustomTemplate |-> TRUE,
     url |-> template.imageUrl, objects |-> <<>>, transform |-> 0]

\* drawPOPItem(product, ..., settings, hasCustomTemplate) of every product of
\* the catalogue, tabulated once
popGroup ==
    [sku \in Skus |-> [hasCustomTemplate \in BOOLEAN |->
        drawPOPItem(Catalog[sku], PopSettings, hasCustomTemplate)]]

\* a label group laid out for the surface it is drawn on (0: off-screen
\* export surface) instead of for the hasCustomTemplate argument
GroupObjectBySurface(id, sku, hasCustomTemplate, savedTransform) ==
    [kind |-> "group", call |-> id, sku |-> sku, hasCustomTemplate |-> hasCustomTemplate,
     url |-> "", objects |-> popGroup[sku][id # 0],
     transform |-> savedTransform]

\* the label group put on the surface, after popGroup.set(savedTransform)
GroupObject(id, sku, hasCustomTemplate, savedTransform) ==
    [kind |-> "group", call |-> id, sku |-> sku, hasCustomTemplate |-> hasCustomTemplate,
     url |-> "", objects |-> popGroup[sku][hasCustomTemplate],
     transform |-> savedTransform]

\* FabricImage.fromURL resolved: canvas.add(img); canvas.sendObjectToBack(img)
surfaceAfterImage(objects, id, call) == <<ImageObject(id, call.template)>> \o objects

callAfterImage(call) ==
    [call EXCEPT !.pc = IF call.product # NoSku THEN "awaitDrawCustom" ELSE "done"]

\* a catch block that logs and returns without the fallback render
callAfterImageErrorNoFallback(call) == [call EXCEPT !.pc = "done", !.logged = TRUE]

\* FabricImage.fromURL rejected: the catch block runs renderDefaultCanvas
callAfterImageError(call) ==
    [call EXCEPT !.pc = renderDefaultCanvas(call.product), !.logged = TRUE]

\* drawPOPItem resolved: canvas.add(popGroup)
surfaceAfterDraw(objects, id, call) ==
    Append(objects, GroupObject(id, call.product, call.pc = "awaitDrawCustom",
                                call.savedTransform))

callAfterDraw(call) == [call EXCEPT !.pc = "done"]

\* a promise continuation is queued: no event handler runs before it
MicrotaskPending ==
    \/ \E c \in 1..Len(calls) : calls[c].pc \in AwaitDraw
    \/ exportPc = "rendering" /\ exportCall.pc \in AwaitDraw \cup {"done"}

\* ------------------------------------------------------------------------
\* Editor actions
\* ------------------------------------------------------------------------
InList(list, sku) == \E i \in 1..Len(list) : list[i] = sku

\* SKUForm.handleSearch found a product that is not in the list:
\* EditorPage.handleAddProduct appends it
handleAddProduct(sku) ==
    /\ ~MicrotaskPending
    /\ Len(products) < MaxProducts
    /\ ~InList(products, sku)
    /\ products' = Append(products, sku)
    /\ UNCHANGED <<internalPage, selectedTemplateData, previewVars, exportVars,
                   layVars, fitVars, formVars>>

\* EditorPage.handleRemoveProduct
handleRemoveProduct(sku) ==
    /\ ~MicrotaskPending
    /\ InList(products, sku)
    /\ products' = SelectSeq(products, LAMBDA p : p # sku)
    /\ UNCHANGED <<internalPage, selectedTemplateData, previewVars, exportVars,
                   layVars, fitVars, formVars>>

\* EditorPage.handleSelectTemplate
handleSelectTemplate(template) ==
    /\ ~MicrotaskPending
    /\ selectedTemplateData' = template
    /\ UNCHANGED <<products, internalPage, previewVars, exportVars, layVars, fitVars, formVars>>

\* the Prev button: setPage(currentPage - 1)
PrevPage ==
    /\ ~MicrotaskPending
    /\ totalPages(products) > 1
    /\ internalPage # 0
    /\ internalPage' = clampPage(products, internalPage - 1)
    /\ UNCHANGED <<products, selectedTemplateData, previewVars, exportVars,
                   layVars, fitVars, formVars>>

\* the Next button: setPage(currentPage + 1)
NextPage ==
    /\ ~MicrotaskPending
    /\ totalPages(products) > 1
    /\ internalPage < totalPages(products) - 1
    /\ internalPage' = clampPage(products, internalPage + 1)
    /\ UNCHANGED <<products, selectedTemplateData, previewVars, exportVars,
                   layVars, fitVars, formVars>>

\* the effect that clamps the page index after the list shrank
ClampPageEffect ==
    /\ ~MicrotaskPending
    /\ internalPage > totalPages(products) - 1
    /\ internalPage' = clampPage(products, Max(0, totalPages(products) - 1))
    /\ UNCHANGED <<products, selectedTemplateData, previewVars, exportVars,
                   layVars, fitVars, formVars>>

\* ------------------------------------------------------------------------
\* Preview surface: PageCanvas.renderCanvas and the awaits of its call
\* ------------------------------------------------------------------------
\* renderCanvas without canvas.clear()
renderCanvasNoClear ==
    /\ ~MicrotaskPending
    /\ Len(calls) < MaxRenders
    /\ calls' = Append(calls,
            renderPageCanvasStart(productAt(products, internalPage), selectedTemplateData,
                                  {c \in 1..Len(calls) : calls[c].pc = "awaitImage"},
                                  itemTransforms))
    /\ UNCHANGED <<canvasObjects, itemTransforms, editorVars, exportVars, layVars, fitVars, formVars>>

\* PageCanvas.renderCanvas: the effect runs renderPageCanvas(fabricCanvas, product)
\* up to its first await: canvas.clear(), then the image load or the draw starts
renderCanvas ==
    /\ ~MicrotaskPending
    /\ Len(calls) < MaxRenders
    /\ calls' = Append(calls,
            renderPageCanvasStart(productAt(products, internalPage), selectedTemplateData,
                                  {c \in 1..Len(calls) : calls[c].pc = "awaitImage"},
                                  itemTransforms))
    /\ canvasObjects' = <<>>
    /\ UNCHANGED <<itemTransforms, editorVars, exportVars, layVars, fitVars, formVars>>

\* the template image of call c loaded
previewImageLoaded(c) ==
    /\ ~MicrotaskPending
    /\ calls[c].pc = "awaitImage"
    /\ canvasObjects' = surfaceAfterImage(canvasObjects, c, calls[c])
    /\ calls' = [calls EXCEPT ![c] = callAfterImage(calls[c])]
    /\ UNCHANGED <<itemTransforms, editorVars, exportVars, layVars, fitVars, formVars>>

\* the template image of call c failed to load
previewImageError(c) ==
    /\ ~MicrotaskPending
    /\ calls[c].pc = "awaitImage"
    /\ calls' = [calls EXCEPT ![c] = callAfterImageError(calls[c])]
    /\ UNCHANGED <<canvasObjects, itemTransforms, editorVars, exportVars, layVars, fitVars, formVars>>

\* call c resumes after await drawPOPItem
previewDrawResolved(c) ==
    /\ calls[c].pc \in AwaitDraw
    /\ canvasObjects' = surfaceAfterDraw(canvasObjects, c, calls[c])
    /\ calls' = [calls EXCEPT ![c] = callAfterDraw(calls[c])]
    /\ UNCHANGED <<itemTransforms, editorVars, exportVars, layVars, fitVars, formVars>>

\* the transforms a drag can leave on a group (0: no saved transform)
TransformValues == {1}

\* an end-of-drag callback that stores the transform under any SKU
handleObjectModifiedAnySku(transform) ==
    /\ ~MicrotaskPending
    /\ productAt(products, internalPage) # NoSku
    /\ \E i \in 1..Len(canvasObjects), sku \in Skus :
          /\ canvasObjects[i].kind = "group"
          /\ canvasObjects' = [canvasObjects EXCEPT ![i].transform = transform]
          /\ itemTransforms' = [itemTransforms EXCEPT ![sku] = transform]
    /\ UNCHANGED <<calls, editorVars, exportVars, layVars, fitVars, formVars>>

\* PageCanvas.handleObjectModified: the user dragged or scaled a group on the
\* preview surface (the template image is not selectable);
\* onTransformChange(product.sku, transform) stores it in itemTransforms
handleObjectModified(transform) ==
    /\ ~MicrotaskPending
    /\ productAt(products, internalPage) # NoSku
    /\ \E i \in 1..Len(canvasObjects) :
          /\ canvasObjects[i].kind = "group"
          /\ canvasObjects' = [canvasObjects EXCEPT ![i].transform = transform]
    /\ itemTransforms' =
            [itemTransforms EXCEPT ![productAt(products, internalPage)] = transform]
    /\ UNCHANGED <<calls, editorVars, exportVars, layVars, fitVars, formVars>>

\* ------------------------------------------------------------------------
\* Export: getPageImages
\* ------------------------------------------------------------------------
\* one loop iteration up to the first await of its renderPageCanvas call:
\* a new off-screen surface, then renderPageCanvas(canvas, products[index])
exportIteration(index, surfaces) ==
    /\ exportIndex' = index
    /\ exportSurfaces' = surfaces \cup {index}
    /\ exportCanvas' = <<>>
    /\ exportCall' = renderPageCanvasStart(productAt(exportProducts', index),
                                           exportTemplate', {}, exportTransforms')
    /\ exportPc' = "rendering"

\* the loop bound of getPageImages
exportPageCount(list) == totalPages(list)

\* getPageImages is called
getPageImages ==
    /\ ~MicrotaskPending
    /\ exportPc \in {"idle", "done"}
    /\ exportProducts' = products
    /\ exportTemplate' = selectedTemplateData
    /\ exportTransforms' = itemTransforms
    /\ images' = <<>>
    /\ IF 0 < exportPageCount(products)
       THEN exportIteration(0, exportSurfaces)
       ELSE /\ exportPc' = "done"
            /\ UNCHANGED <<exportIndex, exportCall, exportCanvas, exportSurfaces>>
    /\ UNCHANGED <<editorVars, previewVars, layVars, fitVars, formVars>>

exportImageLoaded ==
    /\ ~MicrotaskPending
    /\ exportPc = "rendering"
    /\ exportCall.pc = "awaitImage"
    /\ exportCanvas' = surfaceAfterImage(exportCanvas, 0, exportCall)
    /\ exportCall' = callAfterImage(exportCall)
    /\ UNCHANGED <<exportPc, exportIndex, exportProducts, exportTemplate, exportTransforms,
                   exportSurfaces, images, editorVars, previewVars, layVars, fitVars, formVars>>

exportImageError ==
    /\ ~MicrotaskPending
    /\ exportPc = "rendering"
    /\ exportCall.pc = "awaitImage"
    /\ exportCall' = callAfterImageError(exportCall)
    /\ UNCHANGED <<exportPc, exportIndex, exportProducts, exportTemplate, exportTransforms, exportCanvas,
                   exportSurfaces, images, editorVars, previewVars, layVars, fitVars, formVars>>

exportDrawResolved ==
    /\ exportPc = "rendering"
    /\ exportCall.pc \in AwaitDraw
    /\ exportCanvas' = surfaceAfterDraw(exportCanvas, 0, exportCall)
    /\ exportCall' = callAfterDraw(exportCall)
    /\ UNCHANGED <<exportPc, exportIndex, exportProducts, exportTemplate, exportTransforms,
                   exportSurfaces, images, editorVars, previewVars, layVars, fitVars, formVars>>

\* a loop body that never disposes its surface
disposeSurfaceNever(surfaces, index) == surfaces

\* the surface after canvas.dispose() of page index
disposeSurface(surfaces, index) == surfaces \ {index}

\* getPageImages resumes after await renderPageCanvas: images.push(toDataURL),
\* canvas.dispose(), then the next iteration or the return
exportCapture ==
    /\ exportPc = "rendering"
    /\ exportCall.pc = "done"
    /\ images' = Append(images, [index |-> exportIndex, sku |-> exportCall.product,
                                 logged |-> exportCall.logged, objects |-> exportCanvas])
    /\ UNCHANGED <<exportProducts, exportTemplate, exportTransforms>>
    /\ IF exportIndex + 1 < exportPageCount(exportProducts)
       THEN exportIteration(exportIndex + 1, disposeSurface(exportSurfaces, exportIndex))
       ELSE /\ exportSurfaces' = disposeSurface(exportSurfaces, exportIndex)
            /\ exportCanvas' = <<>>
            /\ exportCall' = NoCall
            /\ exportPc' = "done"
            /\ UNCHANGED exportIndex
    /\ UNCHANGED <<editorVars, previewVars, layVars, fitVars, formVars>>

\* ------------------------------------------------------------------------
\* One drawPOPItem call on a product drawn from the input space
\* ------------------------------------------------------------------------
PriceShapes == {"none", "single", "two", "three"}

\* customPriceOptions of a price shape
shapeOptions(shape) ==
    CASE shape = "two" -> <<Row("Pcs", 10000, 8000), Row("Dus", 110000, 90000)>>
      [] shape = "three" -> <<Row("Pcs", 10000, 8000), Row("Dus", 110000, 90000),
                              Row("Box", 500000, 0)>>
      [] OTHER -> <<>>

\* a product of the input space
LayoutProduct(dt, d1, t2, d3, d4, amt, cu, up, shape, desc, mp) ==
    [BaseProduct EXCEPT
        !.sku = "P", !.name = "Keramik 60x60",
        !.discountType = dt, !.discount = d1,
        !.extraDiscount = t2[1], !.disc2 = t2[2], !.disc3 = d3,
        !.memberDiscount = d4, !.discountAmount = amt,
        !.isCustom = cu, !.upTo = up,
        !.uom = IF shape = "single" THEN "Pcs" ELSE "",
        !.normalPrice = IF shape = "single" THEN 50000 ELSE 0,
        !.promoPrice = IF shape = "single" THEN 35000 ELSE 0,
        !.customPriceOptions = shapeOptions(shape),
        !.description = desc,
        !.basePricePerMeter = mp[1], !.finalPricePerMeter = mp[2]]

DiscountTypes == {"percent", "cut"}
BaseDiscounts == {0, 30, 150}
\* <<extraDiscount, disc2>>
Tier2Values == {<<Undefined, Undefined>>, <<5, 7>>}
Tier3Values == {Undefined, 4}
Tier4Values == {Undefined, 2, 5}
DiscountAmounts == {Undefined, 0, 15000}
Descriptions == {"", "Granit 60x60"}
\* <<basePricePerMeter, finalPricePerMeter>>
MeterPrices == {<<Undefined, Undefined>>, <<125000, Undefined>>, <<125000, 104000>>}

LayoutSettings == {[showStrikePrice |-> b, layout |-> "1"] : b \in BOOLEAN}

\* drawPOPItem(product, 0, 0, itemWidth, itemHeight, settings, hasCustomTemplate)
DrawPOPItemCall ==
    /\ layPc = "idle"
    /\ \E dt \in DiscountTypes, d1 \in BaseDiscounts, t2 \in Tier2Values,
          d3 \in Tier3Values, d4 \in Tier4Values, amt \in DiscountAmounts,
          cu \in BOOLEAN, up \in BOOLEAN, shape \in PriceShapes,
          desc \in Descriptions, mp \in MeterPrices,
          settings \in LayoutSettings, hasCustomTemplate \in BOOLEAN :
            LET product == LayoutProduct(dt, d1, t2, d3, d4, amt, cu, up, shape, desc, mp)
            IN  /\ layProduct' = product
                /\ laySettings' = settings
                /\ layCustom' = hasCustomTemplate
                /\ layObjects' = drawPOPItem(product, settings, hasCustomTemplate)
                /\ layStrikeAdvance' = strikeAdvance(product, settings)
                /\ UNCHANGED layRow
    /\ layPc' = "done"
    /\ UNCHANGED <<editorVars, previewVars, exportVars, fitVars, formVars>>

\* ------------------------------------------------------------------------
\* One drawPOPItem call on a product with price rows drawn from RowValues
\* ------------------------------------------------------------------------
RowValues ==
    {Row("Pcs", 10000, 8000), Row("Dus", 110000, 0), Row("Box", 9000, 9000),
     Row("Plt", 1500000000, 1200000000), Row("Sak", 0, 0)}

RowLists == UNION {[1..n -> RowValues] : n \in 1..MaxRows}

\* a product with the price rows `rows`
RowsProduct(rows, d1, granite) ==
    [BaseProduct EXCEPT
        !.sku = "P", !.name = "Keramik 60x60", !.discount = d1,
        !.customPriceOptions = rows,
        !.description = IF granite THEN "Granit 60x60" ELSE "",
        !.basePricePerMeter = IF granite THEN 125000 ELSE Undefined,
        !.finalPricePerMeter = IF granite THEN 104000 ELSE Undefined]

\* drawPOPItem(product, 0, 0, itemWidth, itemHeight, settings, false)
DrawPriceRowsCall ==
    /\ layPc = "idle"
    /\ \E rows \in RowLists, d1 \in {0, 30}, granite \in BOOLEAN,
          layout \in {"1", "2", "4"}, showStrikePrice \in BOOLEAN :
            LET product == RowsProduct(rows, d1, granite)
                settings == [showStrikePrice |-> showStrikePrice, layout |-> layout]
            IN  /\ layProduct' = product
                /\ laySettings' = settings
                /\ layCustom' = FALSE
                /\ layObjects' = drawPOPItem(product, settings, FALSE)
                /\ layStrikeAdvance' = strikeAdvance(product, settings)
                /\ UNCHANGED layRow
    /\ layPc' = "done"
    /\ UNCHANGED <<editorVars, previewVars, exportVars, fitVars, formVars>>

\* ------------------------------------------------------------------------
\* One call of a text fitting helper
\* ------------------------------------------------------------------------
RECURSIVE TextOfLen(_)
TextOfLen(n) ==
    IF n = 0 THEN ""
    ELSE IF n = 1 THEN "x"
    ELSE LET half == TextOfLen(n \div 2)
         IN  half \o half \o (IF n % 2 = 1 THEN "x" ELSE "")

FitTexts == {TextOfLen(n) : n \in {0, 5, 16, 17, 24, 25, 40, 60, 90, 120}}

AllLayouts == {[showStrikePrice |-> TRUE, layout |-> l] : l \in {"1", "2", "4"}}

\* base sizes: the name sizes drawPOPItem computes, and two whole sizes
LineBaseSizes ==
    {nameSize(st, b) : st \in AllLayouts, b \in BOOLEAN} \cup {20 * FontUnit, 16 * FontUnit}

\* fitTextToLines(text, maxLines, box, baseSize)
FitTextToLinesCall ==
    /\ fitOp = "idle"
    /\ \E text \in FitTexts, maxLines \in {1, 2}, baseSize \in LineBaseSizes,
          st \in AllLayouts :
            /\ fitText' = text
            /\ fitMaxLines' = maxLines
            /\ fitBase' = baseSize
            /\ fitMaxWidth' = contentWidth(st) * 100
            /\ fitMin' = 0
            /\ fitResult' = fitTextToLines(text, maxLines, contentWidth(st) * 100, baseSize)
    /\ fitOp' = "lines"
    /\ UNCHANGED <<editorVars, previewVars, exportVars, layVars, formVars>>

WidthBaseSizes == {brandSize(st) : st \in AllLayouts} \cup {20 * FontUnit}

\* fitTextToWidth(text, maxWidth, baseSize, minSize)
FitTextToWidthCall ==
    /\ fitOp = "idle"
    /\ \E text \in FitTexts, baseSize \in WidthBaseSizes,
          maxWidth \in {100 * FontUnit, 300 * FontUnit, contentWidth(PopSettings) * 100},
          minKind \in {"brand", "low", "high"} :
            /\ fitText' = text
            /\ fitMaxLines' = 0
            /\ fitBase' = baseSize
            /\ fitMaxWidth' = maxWidth
            /\ fitMin' = CASE minKind = "brand" ->
                                Max(14 * FontUnit, (baseSize * 65) \div 100)
                           [] minKind = "low" -> 10 * FontUnit
                           [] OTHER -> 30 * FontUnit
            /\ fitResult' = fitTextToWidth(text, maxWidth, baseSize, fitMin')
    /\ fitOp' = "width"
    /\ UNCHANGED <<editorVars, previewVars, exportVars, layVars, formVars>>

\* ------------------------------------------------------------------------
\* SKUForm: custom product entry
\* ------------------------------------------------------------------------
\* A numeric input field is modelled by the number its text parses to:
\* Undefined for the empty text, NaN for a text that is not a number.
\* input ? Number(input) : fallback
NumberOr(input, fallback) == IF input = Undefined THEN fallback ELSE input

\* Math.round((priceCut / normalPrice) * 100) for positive operands
roundPercent(priceCut, normalPrice) ==
    (200 * priceCut + normalPrice) \div (2 * normalPrice)

\* value || undefined
OrUndefined(value) == IF Falsy(value) THEN Undefined ELSE value

\* the first validation of handleAddCustomProduct that fails ("" when none)
customEntryError(form) ==
    LET normalPrice == NumberOr(form.normalPriceInput, 0)
        finalPrice == NumberOr(form.finalPriceInput, normalPrice)
        baseDiscountValue == NumberOr(form.baseDiscountInput, 0)
        extraDiscount == NumberOr(form.extraDiscountInput, 0)
        memberDiscount == NumberOr(form.memberDiscountInput, 0)
        priceCut == NumberOr(form.priceCutInput, 0)
    IN  IF form.normalPriceInput # Undefined /\ (~IsFinite(normalPrice) \/ normalPrice <= 0)
        THEN "Harga normal tidak valid"
        ELSE IF form.finalPriceInput # Undefined /\ (~IsFinite(finalPrice) \/ finalPrice < 0)
        THEN "Harga final tidak valid"
        ELSE IF form.priceMode = "discount"
        THEN (IF ~IsFinite(baseDiscountValue) \/ baseDiscountValue < 0
              THEN "Diskon utama tidak valid"
              ELSE IF ~IsFinite(extraDiscount) \/ extraDiscount < 0
              THEN "Extra Diskon tidak valid"
              ELSE IF ~IsFinite(memberDiscount) \/ memberDiscount < 0
              THEN "Diskon Member tidak valid"
              ELSE "")
        ELSE (IF form.priceCutInput # Undefined /\ (~IsFinite(priceCut) \/ priceCut <= 0)
              THEN "Potongan harga tidak valid"
              ELSE IF JsGt(priceCut, 0) /\ normalPrice > 0 /\ priceCut >= normalPrice
              THEN "Potongan harga tidak boleh melebihi harga normal"
              ELSE "")

\* the product handleAddCustomProduct builds from a form that passed validation
customProduct(form, id) ==
    LET normalPrice == NumberOr(form.normalPriceInput, 0)
        finalPrice == NumberOr(form.finalPriceInput, normalPrice)
        priceCut == NumberOr(form.priceCutInput, 0)
        cut == form.priceMode = "cut"
    IN  [BaseProduct EXCEPT
            !.sku = id,
            !.normalPrice = normalPrice,
            !.promoPrice = finalPrice,
            !.discount = IF cut
                         THEN (IF JsGt(priceCut, 0) /\ normalPrice > 0
                               THEN roundPercent(priceCut, normalPrice) ELSE 0)
                         ELSE NumberOr(form.baseDiscountInput, 0),
            !.discountType = IF cut THEN "cut" ELSE "percent",
            !.discountAmount = IF cut /\ JsGt(priceCut, 0) THEN priceCut ELSE Undefined,
            !.extraDiscount = IF cut THEN Undefined
                              ELSE OrUndefined(NumberOr(form.extraDiscountInput, 0)),
            !.memberDiscount = IF cut THEN Undefined
                               ELSE OrUndefined(NumberOr(form.memberDiscountInput, 0)),
            !.isCustom = TRUE]

\* the texts the entry fields hold when the add button is pressed
\* (the fields the chosen price mode does not read are left empty)
CustomForms ==
    [priceMode : {"discount"},
     normalPriceInput : {Undefined, 0, 50000},
     finalPriceInput : {Undefined, -1, 35000},
     baseDiscountInput : {Undefined, 30},
     priceCutInput : {Undefined},
     extraDiscountInput : {Undefined},
     memberDiscountInput : {Undefined, 2}]
    \cup
    [priceMode : {"cut"},
     normalPriceInput : {Undefined, 0, 50000},
     finalPriceInput : {Undefined, -1, 35000},
     baseDiscountInput : {Undefined},
     priceCutInput : {Undefined, NaN, 15000, 50000, 60000},
     extraDiscountInput : {Undefined},
     memberDiscountInput : {Undefined}]

\* SKUForm.handleAddCustomProduct; tick: the milliseconds since the last entry
handleAddCustomProduct(form, tick) ==
    /\ ~MicrotaskPending
    /\ Len(products) < MaxProducts
    /\ clock + tick <= MaxProducts
    /\ IF customEntryError(form) # ""
       THEN /\ toast' = customEntryError(form)
            /\ UNCHANGED <<products, enteredProduct, clock>>
       ELSE /\ clock' = clock + tick
            /\ enteredProduct' = customProduct(form, "CUSTOM-" \o ToString(clock'))
            /\ products' = Append(products, "CUSTOM-" \o ToString(clock'))
            /\ toast' = "Produk custom ditambahkan"
    /\ UNCHANGED <<internalPage, selectedTemplateData, previewVars, exportVars,
                   layVars, fitVars, searchVars, templateVars>>

\* ------------------------------------------------------------------------
\* SKUForm.handleSearch, as steps around its await
\* ------------------------------------------------------------------------
\* the SKUs the product API or the built-in catalogue knows
LookupSkus == {"SKU001"}

\* what the user can have in the SKU field ("" after normalizeSku: empty)
SkuInputs == LookupSkus \cup {"", "SKU999"}

\* how the awaited lookup of a SKU can end: a product from the API or from
\* searchProduct, no product from either, or fetch rejecting
LookupOutcomes(sku) ==
    (IF sku \in LookupSkus THEN {"found"} ELSE {}) \cup {"notFound", "raised"}

\* handleSearch without the isSubmitting test
handleSearchNoGuard(skuValue) ==
    /\ ~MicrotaskPending
    /\ Len(lookups) < MaxProducts
    /\ IF skuValue = ""
       THEN /\ toast' = "Masukkan SKU terlebih dahulu"
            /\ UNCHANGED searchVars
       ELSE /\ isSubmitting' = TRUE
            /\ lookups' = Append(lookups, [sku |-> skuValue, products |-> products])
            /\ UNCHANGED toast
    /\ UNCHANGED <<editorVars, previewVars, exportVars, layVars, fitVars,
                   enteredProduct, clock, templateVars>>

\* handleSearch up to `await fetchProductBySku(skuValue)`: the empty input and
\* the isSubmitting test return at once; the call keeps the products prop of
\* the render it was made in
handleSearch(skuValue) ==
    /\ ~MicrotaskPending
    /\ IF skuValue = ""
       THEN /\ toast' = "Masukkan SKU terlebih dahulu"
            /\ UNCHANGED searchVars
       ELSE IF isSubmitting
       THEN UNCHANGED <<toast, searchVars>>
       ELSE /\ isSubmitting' = TRUE
            /\ lookups' = Append(lookups, [sku |-> skuValue, products |-> products])
            /\ UNCHANGED toast
    /\ UNCHANGED <<editorVars, previewVars, exportVars, layVars, fitVars,
                   enteredProduct, clock, templateVars>>

\* the sequence without its element i
RemoveAt(seq, i) == SubSeq(seq, 1, i - 1) \o SubSeq(seq, i + 1, Len(seq))

\* setIsSubmitting(false) placed after the try block: skipped when fetch rejects
submittingAfterNoFinally(outcome) == outcome = "raised"

\* finally { setIsSubmitting(false) }: the value of isSubmitting after the call
submittingAfter(outcome) == FALSE

\* handleSearch after the await: the duplicate test on the products it kept,
\* onAddProduct, the toasts, and the finally block
handleSearchResolved(i, outcome) ==
    /\ ~MicrotaskPending
    /\ outcome \in LookupOutcomes(lookups[i].sku)
    /\ IF outcome = "found"
       THEN IF InList(lookups[i].products, lookups[i].sku)
            THEN /\ toast' = "Produk sudah ditambahkan"
                 /\ UNCHANGED products
            ELSE /\ Len(products) < MaxProducts
                 /\ products' = Append(products, lookups[i].sku)
                 /\ toast' = "Produk ditambahkan"
       ELSE IF outcome = "notFound"
       THEN /\ toast' = "SKU tidak ditemukan"
            /\ UNCHANGED products
       ELSE UNCHANGED <<products, toast>>
    /\ isSubmitting' = submittingAfter(outcome)
    /\ lookups' = RemoveAt(lookups, i)
    /\ UNCHANGED <<internalPage, selectedTemplateData, previewVars, exportVars,
                   layVars, fitVars, enteredProduct, clock, templateVars>>

\* the custom entry form left empty
ListForms ==
    {form \in CustomForms :
        /\ form.priceMode = "discount"
        /\ form.normalPriceInput = Undefined
        /\ form.finalPriceInput = Undefined
        /\ form.baseDiscountInput = Undefined
        /\ form.memberDiscountInput = Undefined}

\* ------------------------------------------------------------------------
\* A catalog lookup: GET /api/products/:sku, fetchProductBySku, handleSearch
\* ------------------------------------------------------------------------
\* server toNumber: null and undefined give 0 (rows hold finite numbers)
toNumber(value) == IF value \in {Undefined, NaN} THEN 0 ELSE value

\* Math.round(((basePrice - finalPrice) / basePrice) * 100 * 100), in 1/100 percent
priceDropHundredths(basePrice, finalPrice) ==
    (2 * (basePrice - finalPrice) * 10000 + basePrice) \div (2 * basePrice)

\* server buildProductResponse on whole percentages (Math.round(x * 100) / 100
\* leaves them as they are); the price drop is kept when it is a whole percent
buildProductResponse(row) ==
    LET basePrice == toNumber(row.base_price)
        finalPrice == toNumber(row.final_price)
        rowBaseDiscount == toNumber(row.disc1)
        rowExtraDiscount == toNumber(row.disc2) + toNumber(row.disc3)
        rowMemberDiscount == toNumber(row.disc4)
        sum == rowBaseDiscount + rowExtraDiscount + rowMemberDiscount
        totalDiscount ==
            IF sum <= 0 /\ basePrice > 0 /\ finalPrice > 0 /\ finalPrice < basePrice
            THEN priceDropHundredths(basePrice, finalPrice) \div 100
            ELSE sum
    IN  [sku |-> row.code, name |-> "Keramik 60x60",
         normalPrice |-> basePrice,
         promoPrice |-> IF Falsy(finalPrice) THEN basePrice ELSE finalPrice,
         discount |-> totalDiscount,
         extraDiscount |-> OrUndefined(rowExtraDiscount),
         memberDiscount |-> OrUndefined(rowMemberDiscount),
         discountType |-> "percent", uom |-> "Pcs"]

\* client fetchProductBySku: the Product built from the response body
fetchProductBySku(data) ==
    [BaseProduct EXCEPT
        !.sku = data.sku, !.name = data.name,
        !.normalPrice = IF Falsy(data.normalPrice) THEN 0 ELSE data.normalPrice,
        !.promoPrice = IF Falsy(data.promoPrice) THEN 0 ELSE data.promoPrice,
        !.discount = IF Falsy(data.discount) THEN 0 ELSE data.discount,
        !.extraDiscount = OrUndefined(data.extraDiscount),
        !.disc2 = Undefined, !.disc3 = Undefined,
        !.memberDiscount = OrUndefined(data.memberDiscount),
        !.discountType = IF data.discountType = "" THEN "percent" ELSE data.discountType,
        !.uom = data.uom]

\* handleSearch: enrichedProduct = {...product, ..., discountType: 'percent'}
enrichedProduct(product) == [product EXCEPT !.discountType = "percent"]

RowTier1 == {Undefined, 10, 30}
RowTier2 == {Undefined, 5}
RowTier3 == {Undefined, 4}
RowTier4 == {Undefined, 2, 3, 5}
\* <<base_price, final_price>>
RowPrices == {<<50000, 35000>>, <<50000, 50000>>, <<50000, Undefined>>}

\* a lookup of a catalog product followed by drawPOPItem on the product added
LookupAndDrawCall ==
    /\ layPc = "idle"
    /\ \E disc1 \in RowTier1, disc2 \in RowTier2, disc3 \in RowTier3, disc4 \in RowTier4,
          prices \in RowPrices, settings \in LayoutSettings :
            LET row == SourceRow("SKU001", disc1, disc2, disc3, disc4, prices[1], prices[2])
                product == enrichedProduct(fetchProductBySku(buildProductResponse(row)))
            IN  /\ layRow' = row
                /\ layProduct' = product
                /\ laySettings' = settings
                /\ layCustom' = FALSE
                /\ layObjects' = drawPOPItem(product, settings, FALSE)
                /\ layStrikeAdvance' = strikeAdvance(product, settings)
    /\ layPc' = "done"
    /\ UNCHANGED <<editorVars, previewVars, exportVars, fitVars, formVars>>

\* ------------------------------------------------------------------------
\* Specifications
\* ------------------------------------------------------------------------
EditorNext ==
    \/ \E sku \in Skus : handleAddProduct(sku)
    \/ \E sku \in Skus : handleRemoveProduct(sku)
    \/ \E template \in CustomTemplates : handleSelectTemplate(template)
    \/ PrevPage
    \/ NextPage
    \/ ClampPageEffect

\* the editor with its preview surface
Next ==
    \/ EditorNext
    \/ renderCanvas
    \/ \E c \in 1..Len(calls) : previewImageLoaded(c)
    \/ \E c \in 1..Len(calls) : previewImageError(c)
    \/ \E c \in 1..Len(calls) : previewDrawResolved(c)

Spec == Init /\ [][Next]_vars

\* the editor with the export driver
NextExport ==
    \/ EditorNext
    \/ getPageImages
    \/ exportImageLoaded
    \/ exportImageError
    \/ exportDrawResolved
    \/ exportCapture

SpecExport == Init /\ [][NextExport]_vars

\* One editing session: the user fills the page list, picks a template, turns
\* pages and drags the group on the preview surface, then presses export once
\* the preview renders have settled; the export modal covers the editor while
\* the export loop runs.  The session works on two products of the catalogue.
SessionSkus == {"SKU001", "CUSTOM-1"}

NextSession ==
    \/ /\ exportPc # "rendering"
       /\ \/ \E sku \in SessionSkus : handleAddProduct(sku)
          \/ \E template \in CustomTemplates : handleSelectTemplate(template)
          \/ NextPage
          \/ renderCanvas
          \/ \E c \in 1..Len(calls) : previewImageLoaded(c)
          \/ \E c \in 1..Len(calls) : previewImageError(c)
          \/ \E c \in 1..Len(calls) : previewDrawResolved(c)
          \/ \E transform \in TransformValues : handleObjectModified(transform)
    \/ /\ \A c \in 1..Len(calls) : calls[c].pc = "done"
       /\ exportPc = "idle"
       /\ getPageImages
    \/ exportImageLoaded
    \/ exportImageError
    \/ exportDrawResolved
    \/ exportCapture

SpecSession == Init /\ [][NextSession]_vars

\* the editor with the custom product entry form
NextEntry ==
    \/ \E form \in CustomForms, tick \in {0, 1} : handleAddCustomProduct(form, tick)
    \/ \E i \in 1..Len(products) : handleRemoveProduct(products[i])
    \/ PrevPage
    \/ NextPage
    \/ ClampPageEffect

SpecEntry == Init /\ [][NextEntry]_vars

\* the product list kept by lookups, custom entries and removals, and the
\* page index of the preview
NextList ==
    \/ \E skuValue \in SkuInputs : handleSearch(skuValue)
    \/ \E i \in 1..Len(lookups), outcome \in {"found", "notFound", "raised"} :
            handleSearchResolved(i, outcome)
    \/ \E form \in ListForms, tick \in {0, 1} : handleAddCustomProduct(form, tick)
    \/ \E i \in 1..Len(products) : handleRemoveProduct(products[i])
    \/ PrevPage
    \/ NextPage
    \/ ClampPageEffect

SpecList == Init /\ [][NextList]_vars

\* React runs the clamp effect after the render that shrank the list, and a
\* fetch that was started settles
SpecListFair ==
    /\ SpecList
    /\ WF_vars(ClampPageEffect)
    /\ WF_vars(\E i \in 1..Len(lookups), outcome \in {"notFound", "raised"} :
                    handleSearchResolved(i, outcome))

\* the layout engine on every product of the input space
NextLayout == DrawPOPItemCall

SpecLayout == Init /\ [][NextLayout]_vars

\* the layout engine on products with every list of price rows
NextRows == DrawPriceRowsCall

\* one catalog lookup drawn
NextLookup == LookupAndDrawCall

SpecLookup == Init /\ [][NextLookup]_vars

SpecRows == Init /\ [][NextRows]_vars

\* the text fitting helpers on every input of the input space
NextFit == FitTextToLinesCall \/ FitTextToWidthCall

SpecFit == Init /\ [][NextFit]_vars

\* ------------------------------------------------------------------------
\* Properties
\* ------------------------------------------------------------------------
HasRole(objects, role) == \E i \in 1..Len(objects) : objects[i].role = role

HasKind(objects, kind) == \E i \in 1..Len(objects) : objects[i].kind = kind

\* C1: getPageImages returns exactly one image per product of the list it was
\* called with, for every list length including 0 (an empty list gives no image).
ExportOneImagePerProduct ==
    exportPc = "done" => Len(images) = Len(exportProducts)

\* C2: when a renderPageCanvas call started while an earlier call on the same
\* surface was still awaiting its template image, then once both have
\* completed the surface holds only objects of the later-started call.
OverlapKeepsLaterCallOnly ==
    \A c1, c2 \in 1..Len(calls) :
        (/\ c2 = Len(calls)
         /\ c1 \in calls[c2].overlaps
         /\ calls[c1].pc = "done"
         /\ calls[c2].pc = "done")
        => \A i \in 1..Len(canvasObjects) : canvasObjects[i].call = c2

\* the cards of the percent badge path
HasPercentCard(objects) ==
    \/ HasRole(objects, "badgeRow")
    \/ \E i \in 1..Len(objects) :
          objects[i].role = "cardLabel"
              /\ objects[i].text \in {"DISKON", "DISKON UP TO", "MEMBER"}

\* C3: for a product of discountType 'cut' drawPOPItem never emits a card of the
\* percent badge path, whatever the tier values and the discountAmount.
CutNeverPercentBadge ==
    (layPc = "done" /\ layProduct.discountType = "cut") => ~HasPercentCard(layObjects)

AllTiersZero(product) ==
    /\ Coalesce(product.discount, 0) = 0
    /\ Coalesce(product.extraDiscount, 0) = 0
    /\ Coalesce(product.disc2, 0) = 0
    /\ Coalesce(product.disc3, 0) = 0
    /\ Coalesce(product.memberDiscount, 0) = 0

BadgeRoles == {"cutCard", "cutHeader", "badgeRow", "cardCell", "cardHeader",
               "cardLabel", "cardValue", "cardSeparator"}

\* C4: for a product whose discountType is not 'cut' and whose percent tiers are
\* all zero or absent, the badge step adds nothing: the returned list is the
\* list after the price branch.
NoDiscountNoBadge ==
    (layPc = "done" /\ layProduct.discountType # "cut" /\ AllTiersZero(layProduct))
    => /\ layObjects = headObjects(layProduct, laySettings, layCustom)
                          \o priceObjects(layProduct, laySettings)
       /\ \A i \in 1..Len(layObjects) : layObjects[i].role \notin BadgeRoles

\* C4 witness: a percent product without any percent tier but with a flat
\* amount set has been laid out
NoDiscountNoBadgeWitness ==
    /\ layPc = "done"
    /\ layProduct.discountType = "percent"
    /\ AllTiersZero(layProduct)
    /\ layProduct.discountAmount = 15000
    /\ HasRole(layObjects, "price")

\* the granite branch was taken: the per-meter column has been drawn
TookGranite(objects) ==
    \E i \in 1..Len(objects) : objects[i].role = "priceUom" /\ objects[i].text = "/Mtr"

\* the multi-row branch was taken
TookMultiRow(objects) == HasRole(objects, "rowSeparator")

\* the single-row branch was taken
TookSingleRow(objects) ==
    HasRole(objects, "price") /\ ~TookGranite(objects) /\ ~TookMultiRow(objects)

GraniteCondition(product) ==
    /\ product.descSegment \in GraniteTexts \/ product.description \in GraniteTexts
    /\ product.basePricePerMeter \notin {Undefined, NaN}
    /\ product.finalPricePerMeter \notin {Undefined, NaN}
    /\ Len(priceRows(product)) <= 1

\* C5 as stated: the granite branch is taken iff the description holds the
\* marker, both per-meter prices are finite and there is at most one price row;
\* in every other case the single-row or the multi-row branch is taken.
GraniteIffMarkerMeterRows ==
    layPc = "done"
    => /\ TookGranite(layObjects) <=> GraniteCondition(layProduct)
       /\ ~GraniteCondition(layProduct)
            => (TookSingleRow(layObjects) \/ TookMultiRow(layObjects))

\* C5 amended: the granite branch is taken iff the three conditions hold and the
\* product is not discount-only; a discount-only product gets no price drawing;
\* every other product gets the multi-row branch when it has more than one
\* price row and the single-row branch otherwise.
GraniteIffNotDiscountOnly ==
    layPc = "done"
    => /\ TookGranite(layObjects)
            <=> (GraniteCondition(layProduct) /\ ~isDiscountOnly(layProduct))
       /\ isDiscountOnly(layProduct)
            => (~HasRole(layObjects, "price") /\ ~HasRole(layObjects, "strike"))
       /\ (~TookGranite(layObjects) /\ ~isDiscountOnly(layProduct))
            => /\ TookMultiRow(layObjects) <=> Len(priceRows(layProduct)) > 1
               /\ TookSingleRow(layObjects) <=> Len(priceRows(layProduct)) <= 1

\* C5 witness: a discounted granite product with one price row got both columns
GraniteWitness ==
    /\ layPc = "done"
    /\ GraniteCondition(layProduct)
    /\ hasAnyDiscount(layProduct)
    /\ Len(priceRows(layProduct)) = 1
    /\ TookGranite(layObjects)

\* C6: fitTextToLines never leaves the box at a font size below
\* max(12, baseSize * 0.7).
FitLinesNeverBelowFloor ==
    fitOp = "lines" => (fitResult >= 12 * FontUnit /\ 10 * fitResult >= 7 * fitBase)

\* C7: for the same baseSize, maxWidth and minSize, a text that is at least as
\* long (and so measures at least as wide) never gets a larger size from
\* fitTextToWidth than the shorter text.
FitWidthMonotonic ==
    fitOp = "width"
    => \A longer \in FitTexts :
          (/\ Len(longer) >= Len(fitText)
           /\ TextWidth(longer, fitBase) >= TextWidth(fitText, fitBase))
          => fitTextToWidth(longer, fitMaxWidth, fitBase, fitMin) <= fitResult

\* C7 witness: a text was shrunk part of the way, and a longer text gets a
\* strictly smaller size
FitWidthMonotonicWitness ==
    /\ fitOp = "width"
    /\ fitResult < fitBase
    /\ fitResult > fitMin
    /\ \E longer \in FitTexts :
          /\ Len(longer) > Len(fitText)
          /\ fitTextToWidth(longer, fitMaxWidth, fitBase, fitMin) < fitResult

\* C8 as stated: after a renderPageCanvas call with product undefined has
\* completed, the surface holds no object, whatever the template.
EmptyPageSurfaceEmpty ==
    (/\ Len(calls) > 0
     /\ calls[Len(calls)].pc = "done"
     /\ calls[Len(calls)].product = NoSku)
    => canvasObjects = <<>>

\* the objects call c left on the preview surface
ObjectsOfCall(c) == SelectSeq(canvasObjects, LAMBDA o : o.call = c)

\* C8 amended: a renderPageCanvas call with product undefined clears the
\* surface and draws no label group; the one object it can leave is the
\* template image, and only when the template is custom with an image URL.
EmptyPageNoGroup ==
    \A c \in 1..Len(calls) :
        (c = Len(calls) /\ calls[c].pc = "done" /\ calls[c].product = NoSku)
        => /\ ~HasKind(ObjectsOfCall(c), "group")
           /\ Len(ObjectsOfCall(c)) <= 1
           /\ ObjectsOfCall(c) # <<>>
                => (calls[c].template.type = "custom" /\ calls[c].template.imageUrl # ""
                        /\ ~calls[c].logged)
           /\ (calls[c].template.imageUrl = "" \/ calls[c].logged)
                => ObjectsOfCall(c) = <<>>
           /\ calls[c].overlaps = {} => ObjectsOfCall(c) = canvasObjects

\* C8 witness: an empty page was rendered over a loaded custom template after
\* an earlier call had drawn a product
EmptyPageWitness ==
    /\ Len(calls) = 2
    /\ calls[1].product # NoSku
    /\ calls[2].pc = "done"
    /\ calls[2].product = NoSku
    /\ calls[2].overlaps = {}
    /\ Len(canvasObjects) = 1
    /\ canvasObjects[1].kind = "image"

\* the surface of a page rendered through the flat-background path
IsFlatRendering(objects, sku) ==
    IF sku = NoSku THEN objects = <<>>
    ELSE /\ Len(objects) = 1
         /\ objects[1].kind = "group"
         /\ objects[1].sku = sku
         /\ ~objects[1].hasCustomTemplate
         /\ objects[1].objects = drawPOPItem(Catalog[sku], PopSettings, FALSE)
         /\ objects[1].objects[1].role = "background"

\* C9: a failed template image load does not abort the render: the page is
\* rendered through the flat-background path (white background rectangle, no
\* template image), and the export still delivers every following page.
ImageErrorFallsBack ==
    /\ \A i \in 1..Len(images) :
          images[i].logged => IsFlatRendering(images[i].objects, images[i].sku)
    /\ (exportPc = "rendering" /\ exportCall.logged)
          => /\ exportCall.pc \in {"awaitDrawDefault", "done"}
             /\ ~HasKind(exportCanvas, "image")
    /\ exportPc = "done" => Len(images) = exportPageCount(exportProducts)

\* C9 witness: the image of page 0 failed to load, page 0 was rendered flat
\* and page 1 was rendered as well
ImageErrorWitness ==
    /\ exportPc = "done"
    /\ Len(images) = 2
    /\ images[1].logged
    /\ images[1].sku # NoSku
    /\ images[2].objects # <<>>

\* C10: within one getPageImages call at most one off-screen surface is alive,
\* the surface of a page exists only after the images of all earlier pages
\* were captured and their surfaces disposed, and the i-th image is the
\* rendering of products[i].
ExportSequential ==
    /\ Cardinality(exportSurfaces) <= 1
    /\ exportPc = "rendering" => (exportSurfaces = {exportIndex} /\ Len(images) = exportIndex)
    /\ exportPc = "done" => exportSurfaces = {}
    /\ \A i \in 1..Len(images) :
          /\ images[i].index = i - 1
          /\ images[i].sku = productAt(exportProducts, i - 1)
          /\ \A k \in 1..Len(images[i].objects) :
                images[i].objects[k].kind = "group"
                    => images[i].objects[k].sku = productAt(exportProducts, i - 1)

\* C10 witness: page 1 is being rendered on its own surface after page 0 was
\* captured
ExportSequentialWitness ==
    /\ exportPc = "rendering"
    /\ exportIndex = 1
    /\ Len(images) = 1
    /\ images[1].objects # <<>>
    /\ exportSurfaces = {1}

\* C11: every custom product added in 'cut' price mode has a flat discount
\* amount that does not exceed its normal price (an entry that would break
\* this is rejected and adds nothing).
CutAmountWithinNormalPrice ==
    (enteredProduct.isCustom /\ enteredProduct.discountType = "cut")
    => discountAmount(enteredProduct) <= enteredProduct.normalPrice

\* the objects of a role, in order
WithRole(objects, role) == SelectSeq(objects, LAMBDA o : o.role = role)

\* C12: for a product of discountType 'cut' with discountAmount > 0 drawPOPItem
\* emits exactly one badge card, with header label 'POTONGAN HARGA' and value
\* 'Rp ' followed by the formatted discountAmount, and no percent card,
\* whatever the percent tier fields hold.
CutBadgeExactlyOneCard ==
    (/\ layPc = "done"
     /\ layProduct.discountType = "cut"
     /\ JsGt(layProduct.discountAmount, 0))
    => /\ Len(WithRole(layObjects, "cutCard")) = 1
       /\ Len(WithRole(layObjects, "cutHeader")) = 1
       /\ WithRole(layObjects, "cardLabel")
            = <<Prim("text", "cardLabel", "POTONGAN HARGA", 10000)>>
       /\ WithRole(layObjects, "cardValue")
            = <<Prim("text", "cardValue",
                     "Rp " \o formatPrice(layProduct.discountAmount), 10000)>>
       /\ ~HasPercentCard(layObjects)
       /\ ~HasRole(layObjects, "cardCell")
       /\ ~HasRole(layObjects, "cardSeparator")

\* C12 witness: a cut product with percent tiers set got the card 'Rp 15.000'
CutBadgeWitness ==
    /\ layPc = "done"
    /\ layProduct.discountType = "cut"
    /\ layProduct.discountAmount = 15000
    /\ layProduct.discount = 30
    /\ layProduct.memberDiscount = 2
    /\ \E i \in 1..Len(layObjects) :
          layObjects[i].role = "cardValue" /\ layObjects[i].text = "Rp 15.000"

\* index of the first object of a role and text (0 when there is none)
IndexOf(objects, role, text) ==
    LET found == {i \in 1..Len(objects) :
                    objects[i].role = role /\ objects[i].text = text}
    IN  IF found = {} THEN 0 ELSE CHOOSE i \in found : \A j \in found : i <= j

\* the indexes are all present and strictly increasing
InOrder(indexes) ==
    /\ \A k \in 1..Len(indexes) : indexes[k] > 0
    /\ \A k \in 1..(Len(indexes) - 1) : indexes[k] < indexes[k + 1]

\* one price row with a positive normal price, a base percent discount in
\* 1..100 and no other tier, not 'cut', strikethrough on, no background image
SingleRowBaseDiscount ==
    /\ layPc = "done"
    /\ Len(layProduct.customPriceOptions) = 0
    /\ layProduct.normalPrice > 0
    /\ layProduct.discount \in 1..100
    /\ layProduct.extraDiscount = Undefined /\ layProduct.disc2 = Undefined
    /\ layProduct.disc3 = Undefined /\ layProduct.memberDiscount = Undefined
    /\ layProduct.discountType # "cut"
    /\ laySettings.showStrikePrice
    /\ ~layCustom

\* background, name, divider, strikethrough text and line, promo price block
\* and discount card label come in this order
SingleRowOrder(label) ==
    InOrder(<<IndexOf(layObjects, "background", ""),
              IndexOf(layObjects, "name", layProduct.name),
              IndexOf(layObjects, "divider", ""),
              IndexOf(layObjects, "strike", "Rp " \o formatPrice(layProduct.normalPrice)),
              IndexOf(layObjects, "strikeLine", ""),
              IndexOf(layObjects, "price", mainPrice(layProduct.promoPrice)),
              IndexOf(layObjects, "cardLabel", label)>>)

\* C13 as stated: such a product gets, in this order, the background
\* rectangle, the name, the divider, the strikethrough 'Rp <normalPrice>' with
\* its line, the promo price block and exactly one discount card labeled
\* 'DISKON' whose value is '<discount>%'.
SingleRowSequenceDiskon ==
    SingleRowBaseDiscount
    => /\ layObjects[1] = Prim("rect", "background", "", 10000)
       /\ SingleRowOrder("DISKON")
       /\ WithRole(layObjects, "cardLabel") = <<Prim("text", "cardLabel", "DISKON", 10000)>>
       /\ WithRole(layObjects, "cardValue")
            = <<Prim("text", "cardValue", ToString(layProduct.discount) \o "%", 10000)>>

\* C13 amended: the same sequence, with the one discount card labeled 'DISKON'
\* when the upTo flag is not set and 'DISKON UP TO' when it is set.
SingleRowSequenceUpTo ==
    SingleRowBaseDiscount
    => LET label == IF layProduct.upTo THEN "DISKON UP TO" ELSE "DISKON"
       IN  /\ layObjects[1] = Prim("rect", "background", "", 10000)
           /\ SingleRowOrder(label)
           /\ WithRole(layObjects, "cardLabel")
                = <<Prim("text", "cardLabel", label, 10000)>>
           /\ WithRole(layObjects, "cardValue")
                = <<Prim("text", "cardValue", ToString(layProduct.discount) \o "%", 10000)>>

\* C13 witness: the product of the example (50.000 / 35.000, 30%) was laid out
\* without the upTo flag and got its 'DISKON' card after the price block
SingleRowSequenceWitness ==
    /\ SingleRowBaseDiscount
    /\ ~layProduct.upTo
    /\ layProduct.description = ""
    /\ IndexOf(layObjects, "strike", "Rp 50.000") > 0
    /\ IndexOf(layObjects, "price", "35") > IndexOf(layObjects, "strikeLine", "")
    /\ IndexOf(layObjects, "cardValue", "30%") > IndexOf(layObjects, "price", "35")

\* the indexes of the objects of a role, in order
IndexesOf(objects, role) ==
    SelectSeq([i \in 1..Len(objects) |-> i], LAMBDA i : objects[i].role = role)

\* the price a row shows in its price block
ShownPrice(row) == IF row.promoPrice > 0 THEN row.promoPrice ELSE row.normalPrice

\* the scale the single-row branch asks for
SingleRowScale(product) == IF hasAnyDiscount(product) THEN 14500 ELSE 16500

\* C14: for a product with n >= 2 price rows that each have a positive normal
\* or promo price, the multi-row branch emits exactly n price blocks in row
\* order and exactly n-1 separator lines, one between each pair of consecutive
\* blocks and none after the last, each block at a scale below the scale of
\* the single-row case.
MultiRowBlocksAndSeparators ==
    LET rows == layProduct.customPriceOptions
        n == Len(rows)
        blocks == IndexesOf(layObjects, "price")
        separators == IndexesOf(layObjects, "rowSeparator")
    IN  (/\ layPc = "done"
         /\ n >= 2
         /\ \A i \in 1..n : rows[i].normalPrice > 0 \/ rows[i].promoPrice > 0)
        => /\ Len(blocks) = n
           /\ \A i \in 1..n :
                 layObjects[blocks[i]].text = mainPrice(ShownPrice(rows[i]))
           /\ Len(separators) = n - 1
           /\ \A i \in 1..(n - 1) :
                 blocks[i] < separators[i] /\ separators[i] < blocks[i + 1] - 1
           /\ \A i \in 1..n :
                 /\ layObjects[blocks[i]].scale < SingleRowScale(layProduct)
                 /\ layObjects[blocks[i]].scale
                        < fitSizeScale(laySettings, ShownPrice(rows[i]), rows[i].uom,
                                       SingleRowScale(layProduct), contentWidth(laySettings))

\* C14 witness: two rows were drawn, the wider one shrunk below the row scale,
\* with one separator between them
MultiRowWitness ==
    /\ layPc = "done"
    /\ Len(layProduct.customPriceOptions) = 2
    /\ Len(IndexesOf(layObjects, "price")) = 2
    /\ Len(IndexesOf(layObjects, "rowSeparator")) = 1
    /\ layObjects[IndexesOf(layObjects, "price")[1]].scale = 7200
    /\ layObjects[IndexesOf(layObjects, "price")[2]].scale < 7200

\* the label groups on the preview surface and in the exported pages
PreviewGroups == {canvasObjects[i] : i \in {k \in 1..Len(canvasObjects) : canvasObjects[k].kind = "group"}}

ExportGroups ==
    UNION {{images[j].objects[i] :
                i \in {k \in 1..Len(images[j].objects) : images[j].objects[k].kind = "group"}} :
           j \in 1..Len(images)}

TransformsChangedOnlyByDrag ==
    [][itemTransforms' # itemTransforms =>
          /\ productAt(products, internalPage) # NoSku
          /\ \E transform \in TransformValues :
                itemTransforms' =
                    [itemTransforms EXCEPT ![productAt(products, internalPage)] = transform]
          /\ UNCHANGED <<calls, exportVars, editorVars>>]_vars

\* a drag was saved, a later export read it into the group of that product,
\* and the map still holds it
TransformsWitness ==
    /\ exportPc = "done"
    /\ \E h \in ExportGroups : h.transform # 0 /\ itemTransforms[h.sku] = h.transform
    /\ \E g \in PreviewGroups : g.transform # 0

\* the cards of the badge as <<label, value>> pairs, in drawing order
BadgeCardPairs(objects) ==
    LET labels == WithRole(objects, "cardLabel")
        values == WithRole(objects, "cardValue")
    IN  {<<labels[i].text, values[i].text>> : i \in 1..Len(labels)}

\* the tier-4 value of the drawn product and the role the rule gives it
Tier4(product) == Coalesce(product.memberDiscount, 0)

Tier4IsMember(product) ==
    IF product.isCustom THEN Tier4(product) > 0 ELSE Tier4(product) \in {2, 3}

\* the joined value of the discount card with and without the tier-4 value
DiscountCardValue(product, withTier4) ==
    joinParts(SelectSeq(
        <<Coalesce(product.discount, 0),
          Coalesce(product.extraDiscount, Coalesce(product.disc2, 0)),
          Coalesce(product.disc3, 0),
          IF withTier4 THEN Tier4(product) ELSE 0>>, LAMBDA value : value > 0))

DiscountCards(objects) ==
    {card \in BadgeCardPairs(objects) : card[1] \in {"DISKON", "DISKON UP TO"}}

MemberCards(objects) == {card \in BadgeCardPairs(objects) : card[1] = "MEMBER"}

\* the tier-4 value is shown in the one role the rule gives it
Tier4InItsRole(product, objects) ==
    IF Tier4IsMember(product)
    THEN /\ MemberCards(objects) = {<<"MEMBER", ToString(Tier4(product)) \o "%">>}
         /\ \A card \in DiscountCards(objects) :
                card[2] = DiscountCardValue(product, FALSE)
    ELSE /\ MemberCards(objects) = {}
         /\ Tier4(product) > 0 =>
                /\ DiscountCards(objects) # {}
                /\ \A card \in DiscountCards(objects) :
                       card[2] = DiscountCardValue(product, TRUE)

\* C17: the tier-4 value is counted in exactly one role on every label:
\* member percent for a catalog product iff it is 2 or 3 and for a custom
\* product iff it is positive, part of the discount card otherwise,
\* never in both cards, and a positive value never dropped from both.
Tier4ExactlyOneRole ==
    layPc = "done" => Tier4InItsRole(layProduct, layObjects)

\* the rows of the drawn product that have a positive normal or promo price
PositiveRows(product) ==
    SelectSeq(product.customPriceOptions,
              LAMBDA row : row.normalPrice > 0 \/ row.promoPrice > 0)

\* a strikethrough of the normal price of row i stands before the price block
\* of row i and after the price block of row i - 1
StrikeOfRow(objects, rows, i) ==
    LET blocks == IndexesOf(objects, "price")
    IN  \E k \in 1..Len(objects) :
            /\ (IF i = 1 THEN 0 ELSE blocks[i - 1]) < k
            /\ k < blocks[i]
            /\ objects[k].role = "strike"
            /\ objects[k].text = "Rp " \o formatPrice(rows[i].normalPrice)

\* C18 as stated: in the multi-row branch the strikethrough price of a row is
\* drawn if and only if showStrikePrice is on and the row's normalPrice is
\* greater than its promoPrice.
MultiRowStrikeIffNormalAbovePromo ==
    LET rows == PositiveRows(layProduct)
    IN  (layPc = "done" /\ Len(rows) >= 2)
        => /\ Len(IndexesOf(layObjects, "price")) = Len(rows)
           /\ \A i \in 1..Len(rows) :
                 StrikeOfRow(layObjects, rows, i)
                    <=> (laySettings.showStrikePrice
                            /\ rows[i].normalPrice > rows[i].promoPrice)

\* C18: in the multi-row branch the strikethrough price of a row is drawn if
\* and only if showStrikePrice is on, the row has a positive promoPrice and
\* its normalPrice is greater than that promoPrice; a row without a promo
\* price shows its normal price as the price block, with no strikethrough.
MultiRowStrikeIffPromoBelowNormal ==
    LET rows == PositiveRows(layProduct)
    IN  (layPc = "done" /\ Len(rows) >= 2)
        => /\ Len(IndexesOf(layObjects, "price")) = Len(rows)
           /\ \A i \in 1..Len(rows) :
                 StrikeOfRow(layObjects, rows, i)
                    <=> (/\ laySettings.showStrikePrice
                         /\ rows[i].promoPrice > 0
                         /\ rows[i].normalPrice > rows[i].promoPrice)

\* two rows drawn with showStrikePrice on: the row sold below its normal price
\* has its strikethrough, the row without a promo price has none
MultiRowStrikeWitness ==
    /\ layPc = "done"
    /\ laySettings.showStrikePrice
    /\ layProduct.customPriceOptions = <<Row("Pcs", 10000, 8000), Row("Dus", 110000, 0)>>
    /\ StrikeOfRow(layObjects, layProduct.customPriceOptions, 1)
    /\ ~StrikeOfRow(layObjects, layProduct.customPriceOptions, 2)

\* C19: every price block is drawn at a size scale of at least 0.6: the scale
\* renderPriceBlock uses for drawing is never below the floor, in the
\* single-row, granite and multi-row branches (2 rows and 3 or more rows).
PriceBlockScaleAtLeastFloor ==
    layPc = "done" =>
        \A i \in 1..Len(layObjects) :
            layObjects[i].role \in {"currency", "price", "priceTail", "priceUom"}
                => layObjects[i].scale >= 6000

PriceRoles == {"strike", "strikeUom", "strikeLine", "currency", "price", "priceTail",
               "priceUom", "rowSeparator"}

\* some percent tier or the flat amount of the product is positive
SomeDiscount(product) ==
    \/ Coalesce(product.discount, 0) > 0
    \/ Coalesce(product.extraDiscount, Coalesce(product.disc2, 0)) > 0
    \/ Coalesce(product.disc3, 0) > 0
    \/ Coalesce(product.memberDiscount, 0) > 0
    \/ Coalesce(product.discountAmount, 0) > 0

\* no price row of the product has a positive normal or promo price
NoPositivePriceRow(product) ==
    /\ \A i \in 1..Len(product.customPriceOptions) :
          /\ ~(Coalesce(product.customPriceOptions[i].normalPrice, 0) > 0)
          /\ ~(Coalesce(product.customPriceOptions[i].promoPrice, 0) > 0)
    /\ Len(product.customPriceOptions) = 0 =>
          /\ ~(Coalesce(product.normalPrice, 0) > 0)
          /\ ~(Coalesce(product.promoPrice, 0) > 0)

\* C20: for a product with some discount and no price row with a positive
\* normal or promo price drawPOPItem emits no strikethrough and no price-block
\* primitive, also when the product is granite with finite per-meter prices;
\* every primitive after the divider belongs to the badge.
DiscountOnlyNoPriceDrawn ==
    (layPc = "done" /\ SomeDiscount(layProduct) /\ NoPositivePriceRow(layProduct))
    => /\ \A i \in 1..Len(layObjects) : layObjects[i].role \notin PriceRoles
       /\ IndexOf(layObjects, "divider", "") > 0
       /\ \A i \in 1..Len(layObjects) :
             i > IndexOf(layObjects, "divider", "") => layObjects[i].role \in BadgeRoles

\* a granite product with finite per-meter prices, a 30% discount and no
\* price row was drawn: the discount card follows the divider
DiscountOnlyWitness ==
    /\ layPc = "done"
    /\ layProduct.description = "Granit 60x60"
    /\ layProduct.basePricePerMeter = 125000
    /\ layProduct.finalPricePerMeter = 104000
    /\ layProduct.discount = 30
    /\ layProduct.discountType = "percent"
    /\ NoPositivePriceRow(layProduct)
    /\ layObjects[Len(layObjects)].role \in BadgeRoles
    /\ HasRole(layObjects, "cardValue")

\* C21: for a product with no positive price in any row and no discount
\* drawPOPItem returns a group that holds the background, the name and the
\* divider, and no price-block primitive: the price area is empty.
NoPriceNoDiscountEmptyPriceArea ==
    (layPc = "done" /\ NoPositivePriceRow(layProduct) /\ ~SomeDiscount(layProduct))
    => /\ ~layCustom => HasRole(layObjects, "background")
       /\ HasRole(layObjects, "name")
       /\ HasRole(layObjects, "divider")
       /\ \A i \in 1..Len(layObjects) : layObjects[i].role \notin PriceRoles

\* the flat-cut card is drawn for the product
FlatCutTaken(product) ==
    IF product.discountType = "cut" THEN Coalesce(product.discountAmount, 0) > 0
    ELSE Coalesce(product.discount, 0) > 100

\* the percent badge path is taken for the product
PercentPathTaken(product) ==
    /\ ~FlatCutTaken(product)
    /\ \/ Coalesce(product.discount, 0) > 0
       \/ Coalesce(product.extraDiscount, Coalesce(product.disc2, 0)) > 0
       \/ Coalesce(product.disc3, 0) > 0
       \/ Tier4(product) > 0

\* the <<label, value>> pairs of the cards, left to right
CardSequence(objects) ==
    [i \in 1..Len(WithRole(objects, "cardLabel")) |->
        <<WithRole(objects, "cardLabel")[i].text, WithRole(objects, "cardValue")[i].text>>]

\* the cards the percent badge is to show for the product
ExpectedCards(product) ==
    (IF DiscountCardValue(product, ~Tier4IsMember(product)) # ""
     THEN <<<<IF product.upTo THEN "DISKON UP TO" ELSE "DISKON",
              DiscountCardValue(product, ~Tier4IsMember(product))>>>>
     ELSE <<>>)
    \o (IF Tier4IsMember(product)
        THEN <<<<"MEMBER", ToString(Tier4(product)) \o "%">>>>
        ELSE <<>>)

\* C22: whenever the percent badge path is taken it emits one or two cards,
\* never zero: a discount card iff a non-member percent tier is positive,
\* labeled 'DISKON UP TO' iff upTo is set and 'DISKON' otherwise, and a
\* 'MEMBER' card iff the member percent is positive, the discount card left
\* of the member card.
PercentBadgeOneOrTwoCards ==
    (layPc = "done" /\ PercentPathTaken(layProduct))
    => /\ Len(CardSequence(layObjects)) \in {1, 2}
       /\ CardSequence(layObjects) = ExpectedCards(layProduct)
       /\ Len(WithRole(layObjects, "cardCell")) = Len(CardSequence(layObjects))
       /\ Len(WithRole(layObjects, "badgeRow")) = 1
       /\ ~HasRole(layObjects, "cutCard")

\* a product with base discount 30, member percent 2 and the upTo flag shows
\* the card 'DISKON UP TO' left of the card 'MEMBER'
PercentBadgeWitness ==
    /\ layPc = "done"
    /\ PercentPathTaken(layProduct)
    /\ layProduct.upTo
    /\ Len(CardSequence(layObjects)) = 2
    /\ CardSequence(layObjects)[1][1] = "DISKON UP TO"
    /\ CardSequence(layObjects)[2] = <<"MEMBER", "2%">>

\* C23: the flat-cut card and the percent badge are mutually exclusive in one
\* layout, and the flat-cut card is emitted only for a product whose
\* discountType is 'cut': a 'percent' product never gets it, whatever its
\* percent values.
FlatCutOnlyForCutType ==
    layPc = "done" =>
        /\ ~(HasRole(layObjects, "cutCard") /\ HasRole(layObjects, "badgeRow"))
        /\ HasRole(layObjects, "cutCard") => layProduct.discountType = "cut"

StrikeRoles == {"strike", "strikeUom", "strikeLine"}

\* the price rows of the product that are drawn (positive normal or promo)
DrawnRows(product) ==
    SelectSeq(IF Len(product.customPriceOptions) > 0 THEN product.customPriceOptions
              ELSE <<Row(product.uom, product.normalPrice, product.promoPrice)>>,
              LAMBDA row : Coalesce(row.normalPrice, 0) > 0 \/ Coalesce(row.promoPrice, 0) > 0)

\* C24: with showStrikePrice off drawPOPItem emits no strikethrough text and
\* no strike line in any branch and does not advance the vertical cursor for
\* a strikethrough; with it on, the single-row and granite branches (at most
\* one drawn price row) draw a strikethrough only if the product has some
\* discount and the struck price is non-zero.
StrikeFollowsSetting ==
    layPc = "done" =>
        /\ ~laySettings.showStrikePrice =>
              /\ \A i \in 1..Len(layObjects) : layObjects[i].role \notin StrikeRoles
              /\ layStrikeAdvance = 0
        /\ (laySettings.showStrikePrice /\ Len(DrawnRows(layProduct)) <= 1) =>
              \A i \in 1..Len(layObjects) :
                  layObjects[i].role = "strike" =>
                      /\ SomeDiscount(layProduct)
                      /\ layObjects[i].text \notin {"Rp 0", "Rp NaN"}
                      /\ layStrikeAdvance > 0
        /\ HasRole(layObjects, "strike") <=> layStrikeAdvance > 0

\* the same discounted single-row product was drawn with the setting off: no
\* strikethrough, no advance, but its price block
StrikeOffWitness ==
    /\ layPc = "done"
    /\ ~laySettings.showStrikePrice
    /\ layProduct.discount = 30
    /\ layProduct.normalPrice = 50000
    /\ HasRole(layObjects, "price")
    /\ layStrikeAdvance = 0

\* the digit at position i of a text (-1 when it is no digit)
DigitAt(text, i) ==
    IF \E d \in 0..9 : SubSeq(text, i, i) = ToString(d)
    THEN CHOOSE d \in 0..9 : SubSeq(text, i, i) = ToString(d)
    ELSE -1

\* the sum of the whole numbers written in a text
RECURSIVE SumOfNumbers(_, _, _)
SumOfNumbers(text, i, acc) ==
    IF i > Len(text) THEN acc
    ELSE IF DigitAt(text, i) >= 0
         THEN SumOfNumbers(text, i + 1, acc * 10 + DigitAt(text, i))
         ELSE acc + SumOfNumbers(text, i + 1, 0)

\* the percentages shown on the cards of the label, added up
RECURSIVE LabelPercentSum(_, _)
LabelPercentSum(cards, i) ==
    IF i > Len(cards) THEN 0
    ELSE SumOfNumbers(cards[i][2], 1, 0) + LabelPercentSum(cards, i + 1)

\* C25: for a catalog product fetched through GET /api/products/:sku and
\* fetchProductBySku each source percent tier appears at most once on the
\* label: the percentages joined in the discount card plus the member card
\* add up to disc_1 + disc_2 + disc_3 + disc_4.
LabelShowsEachTierOnce ==
    layPc = "done" =>
        LabelPercentSum(CardSequence(layObjects), 1)
            = toNumber(layRow.disc1) + toNumber(layRow.disc2)
                + toNumber(layRow.disc3) + toNumber(layRow.disc4)

\* C26: after any sequence of SKU lookups, custom-product additions and
\* removals the product list never holds two products with the same SKU.
NoDuplicateSkus ==
    \A i, j \in 1..Len(products) : i # j => products[i] # products[j]

\* the page numbers setPage is tried on
PageArgs == (0 - 2)..(MaxProducts + 2)

PageOutOfBounds == internalPage > totalPages(products) - 1

\* C27: setPage(n) stores a value in [0, totalPages - 1] for every integer n,
\* the page index is never negative, and whenever removals leave the index
\* above the last page it is eventually clamped back to a page of the list
\* (0 when the list is empty) without any further user action.
PageIndexClamped ==
    /\ [](/\ internalPage >= 0
          /\ \A n \in PageArgs :
                clampPage(products, n) \in 0..(totalPages(products) - 1))
    /\ (PageOutOfBounds ~> ~PageOutOfBounds)
    /\ [][(PageOutOfBounds /\ ~PageOutOfBounds' /\ products' = products)
            => internalPage' = totalPages(products) - 1]_vars

\* the product of the page shown was removed and the index points past the
\* last page: the clamp effect is due
PageIndexWitness ==
    /\ Len(products) = 1
    /\ internalPage = 1

\* C30: at most one SKU lookup is in flight at a time and isSubmitting is set
\* exactly while it is; a handleSearch call made while isSubmitting is set
\* starts no lookup and adds no product (a catalog product is added only by
\* the one lookup in flight when it ends); and after every way a lookup ends
\* (product added, duplicate, not found, fetch raising) isSubmitting is
\* false again, so a set guard is always released.
LookupGuardHeldAndReleased ==
    /\ [](/\ Len(lookups) <= 1
          /\ isSubmitting <=> Len(lookups) = 1)
    /\ [][/\ isSubmitting => Len(lookups') <= Len(lookups)
          /\ (Len(products') > Len(products)
                    /\ products'[Len(products')] \in LookupSkus)
                => (Len(lookups) = 1 /\ lookups' = <<>> /\ ~isSubmitting')]_vars
    /\ (isSubmitting ~> ~isSubmitting)

\* a second lookup of a SKU that an earlier lookup added is in flight
LookupGuardWitness ==
    /\ isSubmitting
    /\ Len(lookups) = 1
    /\ InList(products, lookups[1].sku)
    /\ InList(lookups[1].products, lookups[1].sku)

\* ------------------------------------------------------------------------
\* server: POST /api/templates and DELETE /api/templates/:id
\* ------------------------------------------------------------------------
MaxTemplates == 3
MaxRequests == 3

\* `tpl-${crypto.randomUUID()}`: an id no earlier request was given
TemplateId(serial) == "tpl-" \o ToString(serial)

TemplateIds == {TemplateId(serial) : serial \in 1..MaxTemplates}

\* everything but the server's state
clientVars == <<editorVars, previewVars, exportVars, layVars, fitVars, enteredProduct,
                toast, clock, searchVars, customTemplates, deleteCall>>

SetRequest(i, pc, templates, status) ==
    [requests EXCEPT ![i] = [@ EXCEPT !.pc = pc, !.templates = templates,
                                      !.status = status]]

\* the list with the entry of this id taken out (findIndex and splice)
spliceTemplate(templates, id) ==
    LET index == CHOOSE i \in 1..Len(templates) : 
                    /\ templates[i] = id
                    /\ \A j \in 1..(i - 1) : templates[j] # id
    IN  RemoveAt(templates, index)

\* POST /api/templates up to `await fs.writeFile(image)`; valid: name and
\* image data are present and the data URL parses, otherwise status 400
postTemplates(valid) ==
    /\ Len(requests) < MaxRequests
    /\ IF valid
       THEN /\ templateSerial < MaxTemplates
            /\ templateSerial' = templateSerial + 1
            /\ requests' = Append(requests,
                    [kind |-> "post", pc |-> "writeImage", id |-> TemplateId(templateSerial'),
                     templates |-> <<>>, status |-> 0])
       ELSE /\ requests' = Append(requests,
                    [kind |-> "post", pc |-> "done", id |-> "",
                     templates |-> <<>>, status |-> 400])
            /\ UNCHANGED templateSerial
    /\ UNCHANGED <<templateMeta, clientVars>>

\* POST: the image file is written, readTemplates() is awaited next
postImageWritten(i) ==
    /\ requests[i].kind = "post"
    /\ requests[i].pc = "writeImage"
    /\ requests' = SetRequest(i, "readTemplates", <<>>, 0)
    /\ UNCHANGED <<templateMeta, templateSerial, clientVars>>

\* POST: readTemplates() returns the stored list, templates.unshift(template),
\* writeTemplates(templates) is awaited next
postTemplatesRead(i) ==
    /\ requests[i].kind = "post"
    /\ requests[i].pc = "readTemplates"
    /\ requests' = SetRequest(i, "writeTemplates", <<requests[i].id>> \o templateMeta, 0)
    /\ UNCHANGED <<templateMeta, templateSerial, clientVars>>

\* POST: writeTemplates has replaced the file, res.json(template)
postTemplatesWritten(i) ==
    /\ requests[i].kind = "post"
    /\ requests[i].pc = "writeTemplates"
    /\ templateMeta' = requests[i].templates
    /\ requests' = SetRequest(i, "done", requests[i].templates, 200)
    /\ UNCHANGED <<templateSerial, clientVars>>

\* DELETE /api/templates/:id up to `await readTemplates()`
deleteTemplates(id) ==
    /\ Len(requests) < MaxRequests
    /\ requests' = Append(requests,
            [kind |-> "delete", pc |-> "readTemplates", id |-> id,
             templates |-> <<>>, status |-> 0])
    /\ UNCHANGED <<templateMeta, templateSerial, clientVars>>

\* DELETE: readTemplates() returns the stored list; status 404 when the id is
\* not in it, otherwise splice and `await fs.unlink(filePath)`
deleteTemplatesRead(i) ==
    /\ requests[i].kind = "delete"
    /\ requests[i].pc = "readTemplates"
    /\ IF InList(templateMeta, requests[i].id)
       THEN requests' = SetRequest(i, "unlink", spliceTemplate(templateMeta, requests[i].id), 0)
       ELSE requests' = SetRequest(i, "done", templateMeta, 404)
    /\ UNCHANGED <<templateMeta, templateSerial, clientVars>>

\* DELETE: unlink has ended (its failure is caught), writeTemplates is awaited next
deleteUnlinked(i) ==
    /\ requests[i].kind = "delete"
    /\ requests[i].pc = "unlink"
    /\ requests' = SetRequest(i, "writeTemplates", requests[i].templates, 0)
    /\ UNCHANGED <<templateMeta, templateSerial, clientVars>>

\* DELETE: writeTemplates has replaced the file, res.json({ ok: true })
deleteTemplatesWritten(i) ==
    /\ requests[i].kind = "delete"
    /\ requests[i].pc = "writeTemplates"
    /\ templateMeta' = requests[i].templates
    /\ requests' = SetRequest(i, "done", requests[i].templates, 200)
    /\ UNCHANGED <<templateSerial, clientVars>>

\* an awaited file operation of a handler rejects: the catch block answers 500
requestFailed(i) ==
    /\ requests[i].pc \in {"writeImage", "readTemplates", "writeTemplates"}
    /\ requests' = SetRequest(i, "done", requests[i].templates, 500)
    /\ UNCHANGED <<templateMeta, templateSerial, clientVars>>

\* the server handling template requests; Node runs one handler at a time
\* but hands over at every await
NextServer ==
    \/ \E valid \in BOOLEAN : postTemplates(valid)
    \/ \E id \in TemplateIds : deleteTemplates(id)
    \/ \E i \in 1..Len(requests) : postImageWritten(i)
    \/ \E i \in 1..Len(requests) : postTemplatesRead(i)
    \/ \E i \in 1..Len(requests) : postTemplatesWritten(i)
    \/ \E i \in 1..Len(requests) : deleteTemplatesRead(i)
    \/ \E i \in 1..Len(requests) : deleteUnlinked(i)
    \/ \E i \in 1..Len(requests) : deleteTemplatesWritten(i)
    \/ \E i \in 1..Len(requests) : requestFailed(i)

SpecServer == Init /\ [][NextServer]_vars

\* the ids of the requests of this kind that were answered with status 200
Answered(kind) ==
    {requests[i].id : i \in {j \in 1..Len(requests) :
                                /\ requests[j].kind = kind
                                /\ requests[j].pc = "done"
                                /\ requests[j].status = 200}}

\* C28: once every request received has been answered, the stored template
\* list holds each template whose upload was answered with success, except
\* those whose deletion was answered with success: no successful upload is
\* lost and no successfully deleted template comes back, however the
\* handlers of the requests were interleaved.
TemplateMetaKeptUnderConcurrency ==
    (\A i \in 1..Len(requests) : requests[i].pc = "done")
        => {templateMeta[i] : i \in 1..Len(templateMeta)}
                = Answered("post") \ Answered("delete")

\* ------------------------------------------------------------------------
\* TemplatePanel: upload, selection and handleDeleteTemplate
\* ------------------------------------------------------------------------
\* the built-in templates EditorPage passes to the panel (data/templates.ts)
templates == <<>>

\* loadCustomTemplates: a stored template converted to a panel template
convertedTemplate(id) ==
    [id |-> id, type |-> "custom", imageUrl |-> "/uploads/templates/" \o id \o ".png"]

\* everything but the state of the template panel, the stored list and the toast
nonPanelVars == <<products, internalPage, previewVars, exportVars, layVars, fitVars,
                  enteredProduct, clock, searchVars, requests>>

\* TemplateUpload.handleUpload with a name and an image: the server stores
\* the template, then onUploadComplete (loadCustomTemplates) reloads the list
handleUpload ==
    /\ templateSerial < MaxTemplates
    /\ templateSerial' = templateSerial + 1
    /\ templateMeta' = <<TemplateId(templateSerial')>> \o templateMeta
    /\ customTemplates' = templateMeta'
    /\ toast' = "Template berhasil diupload!"
    /\ UNCHANGED <<selectedTemplateData, deleteCall, nonPanelVars>>

\* a click on a template card of the panel
selectTemplateCard(i) ==
    /\ handleSelectTemplate(convertedTemplate(customTemplates[i]))

\* handleDeleteTemplate, confirmed, up to `await templateStorage.deleteTemplate`:
\* the call keeps selectedTemplate and customTemplates of the render it was
\* made in
handleDeleteTemplate(templateId) ==
    /\ deleteCall.pc = "idle"
    /\ deleteCall' = [pc |-> "deleteTemplate", templateId |-> templateId,
                      selectedTemplate |-> selectedTemplateData.id,
                      customTemplates |-> customTemplates, handed |-> ""]
    /\ UNCHANGED <<selectedTemplateData, templateMeta, templateSerial, customTemplates,
                   toast, nonPanelVars>>

\* templateStorage.deleteTemplate ends: the server took the template out of
\* the stored list, or the request failed and the catch block shows a toast
deleteTemplateResolved(ok) ==
    /\ deleteCall.pc = "deleteTemplate"
    /\ IF ok /\ InList(templateMeta, deleteCall.templateId)
       THEN /\ templateMeta' = spliceTemplate(templateMeta, deleteCall.templateId)
            /\ toast' = "Template berhasil dihapus"
            /\ deleteCall' = [deleteCall EXCEPT !.pc = "loadCustomTemplates"]
       ELSE /\ toast' = "Gagal menghapus template"
            /\ deleteCall' = [deleteCall EXCEPT !.pc = "idle"]
            /\ UNCHANGED templateMeta
    /\ UNCHANGED <<selectedTemplateData, templateSerial, customTemplates, nonPanelVars>>

\* const fallback = templates[0] || customTemplates[0], from the lists the
\* call has kept ("" when both are empty)
fallbackTemplate(call) ==
    IF Len(templates) > 0 THEN templates[1]
    ELSE IF Len(call.customTemplates) > 0 THEN call.customTemplates[1]
    ELSE ""

\* handleDeleteTemplate after `await loadCustomTemplates()`: the list is
\* reloaded (or the load failed and shows a toast), then the fallback is
\* selected when the deleted template was the selected one
deleteTemplateReloaded(ok) ==
    /\ deleteCall.pc = "loadCustomTemplates"
    /\ IF ok
       THEN /\ customTemplates' = templateMeta
            /\ UNCHANGED toast
       ELSE /\ toast' = "Gagal memuat template custom"
            /\ UNCHANGED customTemplates
    /\ IF /\ deleteCall.selectedTemplate = deleteCall.templateId
          /\ fallbackTemplate(deleteCall) # ""
       THEN /\ selectedTemplateData' = convertedTemplate(fallbackTemplate(deleteCall))
            /\ deleteCall' = [deleteCall EXCEPT !.pc = "idle",
                                               !.handed = fallbackTemplate(deleteCall)]
       ELSE /\ deleteCall' = [deleteCall EXCEPT !.pc = "idle"]
            /\ UNCHANGED selectedTemplateData
    /\ UNCHANGED <<templateMeta, templateSerial, nonPanelVars>>

\* an admin using the template panel
NextPanel ==
    \/ handleUpload
    \/ \E i \in 1..Len(customTemplates) : selectTemplateCard(i)
    \/ \E i \in 1..Len(customTemplates) : handleDeleteTemplate(customTemplates[i])
    \/ \E ok \in BOOLEAN : deleteTemplateResolved(ok)
    \/ \E ok \in BOOLEAN : deleteTemplateReloaded(ok)

SpecPanel == Init /\ [][NextPanel]_vars

\* C29: when a handleDeleteTemplate call that deleted the selected template
\* has handed a selection to the editor, that selection is not the deleted
\* template but one that is still stored.
DeleteNeverSelectsDeleted ==
    (deleteCall.pc = "idle" /\ deleteCall.handed # "")
        => /\ deleteCall.handed # deleteCall.templateId
           /\ InList(templateMeta, deleteCall.handed)

====
